---- MODULE Spec2Model ----
(***************************************************************************)
(* Backgammon engine of src/project: the board state (gameState.py), the   *)
(* move generator, the arc-consistency filter and the two expectiminimax   *)
(* variants (csp_arc_consistency.py, expectiminimax.py).                   *)
(*                                                                         *)
(* A GameState object is a record.  Python methods that mutate `self` are  *)
(* operators that return the object after the call.  The field `alias` is  *)
(* a ghost: the set of mutable fields (lists, dicts) the object shares     *)
(* with the caller's authoritative state; a write to such a field is seen  *)
(* by the caller.  A list slice or dict.copy() shares nothing.             *)
(***************************************************************************)
EXTENDS Integers, Sequences, FiniteSets, TLC

\* ---- Game constants (gameState.py 29-33) ----
NUM_POINTS == 24
PLAYER == 1
AI == -1
\* The origin of a re-entry move, the string "BAR" in the source; a number
\* here so that it compares with point indices.
BAR == 100
\* Python's None, as the argument of apply_move.
None == [none |-> TRUE]
TOTAL_CHECKERS == 15

Sides == {PLAYER, AI}
Points == 0 .. (NUM_POINTS - 1)
MutableFields == {"points", "bar", "bear_off", "dice_left"}

Move(f, t, d) == [from_pt |-> f, to_pt |-> t, die_used |-> d]

Abs(x) == IF x < 0 THEN -x ELSE x

RECURSIVE SumTo(_, _)
\* sum of f[i] for i in 0..n
SumTo(f, n) == IF n < 0 THEN 0 ELSE f[n] + SumTo(f, n - 1)

RECURSIVE SumOver(_, _)
\* sum of f[i] for i in S
SumOver(f, S) ==
    IF S = {} THEN 0
    ELSE LET i == CHOOSE j \in S : TRUE IN f[i] + SumOver(f, S \ {i})

\* ---- GameState (gameState.py 36-53) ----
NewGameState ==
    [points |-> [i \in Points |-> 0],
     bar |-> [s \in Sides |-> 0],
     bear_off |-> [s \in Sides |-> 0],
     current_player |-> PLAYER,
     dice |-> <<>>,
     dice_left |-> <<>>,
     alias |-> {}]

\* clone that hands back the object itself, its lists and dicts shared
clone_Shared(s) == s

\* clone with `s.points = self.points`: the list itself, not a copy of it
clone_SharedPoints(s) == [s EXCEPT !.alias = {"points"}]

clone(s) == [s EXCEPT !.alias = {}]

StandardPoints ==
    [i \in Points |->
        CASE i = 0 -> 2
          [] i = 11 -> 5
          [] i = 16 -> 3
          [] i = 18 -> 5
          [] i = 23 -> -2
          [] i = 12 -> -5
          [] i = 7 -> -3
          [] i = 5 -> -5
          [] OTHER -> 0]

setup_standard(s) ==
    [s EXCEPT !.points = StandardPoints,
              !.bar = [p \in Sides |-> 0],
              !.bear_off = [p \in Sides |-> 0],
              !.dice = <<>>,
              !.dice_left = <<>>]

\* checkers of side p on point i
Own(s, p, i) == IF p = PLAYER THEN (IF s.points[i] > 0 THEN s.points[i] ELSE 0)
                ELSE (IF s.points[i] < 0 THEN -s.points[i] ELSE 0)

\* pip_count without the 25 pips of a checker on the bar
pip_count_NoBar(s, player) ==
    IF player = PLAYER
    THEN SumOver([i \in Points |-> s.points[i] * (24 - i)], {i \in Points : s.points[i] > 0})
    ELSE SumOver([i \in Points |-> Abs(s.points[i]) * (i + 1)], {i \in Points : s.points[i] < 0})

pip_count(s, player) ==
    IF player = PLAYER
    THEN s.bar[PLAYER] * 25
         + SumOver([i \in Points |-> s.points[i] * (24 - i)], {i \in Points : s.points[i] > 0})
    ELSE s.bar[AI] * 25
         + SumOver([i \in Points |-> Abs(s.points[i]) * (i + 1)], {i \in Points : s.points[i] < 0})

\* can_bear_off with the PLAYER slice one point short (points[0:17])
can_bear_off_ShortSlice(s, player) ==
    IF s.bar[player] > 0 THEN FALSE
    ELSE IF player = PLAYER
         THEN SumOver(s.points, {i \in 0 .. 16 : s.points[i] > 0}) = 0
         ELSE SumOver([i \in Points |-> Abs(s.points[i])], {i \in 6 .. 23 : s.points[i] < 0}) = 0

can_bear_off(s, player) ==
    IF s.bar[player] > 0 THEN FALSE
    ELSE IF player = PLAYER
         THEN SumOver(s.points, {i \in 0 .. 17 : s.points[i] > 0}) = 0
         ELSE SumOver([i \in Points |-> Abs(s.points[i])], {i \in 6 .. 23 : s.points[i] < 0}) = 0

\* is_valid_dest without the test of the opposing checkers on the point
is_valid_dest_AnyPoint(s, player, dest) == TRUE

is_valid_dest(s, player, dest) ==
    IF ~(0 <= dest /\ dest <= 23) THEN TRUE
    ELSE IF player = PLAYER THEN s.points[dest] >= -1
         ELSE s.points[dest] <= 1

RECURSIVE RemoveFirst(_, _)
\* list.remove(x): the list without the first occurrence of x
RemoveFirst(lst, x) ==
    IF lst = <<>> THEN <<>>
    ELSE IF Head(lst) = x THEN Tail(lst)
         ELSE <<Head(lst)>> \o RemoveFirst(Tail(lst), x)

\* the test that never finds the die
InList_Never(lst, x) == FALSE

InList(lst, x) == \E i \in 1 .. Len(lst) : lst[i] = x

\* apply_move with the hit branches not sending the hit checker to the bar
apply_move_NoBarOnHit(s, move, player) ==
    IF move = None THEN [ok |-> FALSE, st |-> s]
    ELSE
    LET bar1 == IF move.from_pt = BAR THEN [s.bar EXCEPT ![player] = @ - 1] ELSE s.bar
        pts1 == IF move.from_pt = BAR THEN s.points
                ELSE IF player = PLAYER THEN [s.points EXCEPT ![move.from_pt] = @ - 1]
                     ELSE [s.points EXCEPT ![move.from_pt] = @ + 1]
        off == (player = PLAYER /\ move.to_pt >= 24) \/ (player = AI /\ move.to_pt <= -1)
        target_val == pts1[move.to_pt]
        bo2 == IF off THEN [s.bear_off EXCEPT ![player] = @ + 1] ELSE s.bear_off
        pts2 == IF off THEN pts1
                ELSE IF player = PLAYER
                     THEN IF target_val = -1 THEN [pts1 EXCEPT ![move.to_pt] = 1]
                          ELSE [pts1 EXCEPT ![move.to_pt] = @ + 1]
                     ELSE IF target_val = 1 THEN [pts1 EXCEPT ![move.to_pt] = -1]
                          ELSE [pts1 EXCEPT ![move.to_pt] = @ - 1]
        dl2 == IF InList(s.dice_left, move.die_used)
               THEN RemoveFirst(s.dice_left, move.die_used) ELSE s.dice_left
    IN [ok |-> TRUE,
        st |-> [s EXCEPT !.points = pts2, !.bar = bar1, !.bear_off = bo2, !.dice_left = dl2]]

\* apply_move with the hit branches left out: every destination is updated
\* like an ordinary point
apply_move_NoHit(s, move, player) ==
    IF move = None THEN [ok |-> FALSE, st |-> s]
    ELSE
    LET bar1 == IF move.from_pt = BAR THEN [s.bar EXCEPT ![player] = @ - 1] ELSE s.bar
        pts1 == IF move.from_pt = BAR THEN s.points
                ELSE IF player = PLAYER THEN [s.points EXCEPT ![move.from_pt] = @ - 1]
                     ELSE [s.points EXCEPT ![move.from_pt] = @ + 1]
        off == (player = PLAYER /\ move.to_pt >= 24) \/ (player = AI /\ move.to_pt <= -1)
        bo2 == IF off THEN [s.bear_off EXCEPT ![player] = @ + 1] ELSE s.bear_off
        pts2 == IF off THEN pts1
                ELSE IF player = PLAYER THEN [pts1 EXCEPT ![move.to_pt] = @ + 1]
                     ELSE [pts1 EXCEPT ![move.to_pt] = @ - 1]
        dl2 == IF InList(s.dice_left, move.die_used)
               THEN RemoveFirst(s.dice_left, move.die_used) ELSE s.dice_left
    IN [ok |-> TRUE,
        st |-> [s EXCEPT !.points = pts2, !.bar = bar1, !.bear_off = bo2, !.dice_left = dl2]]

\* apply_move with a test of the destination placed after the origin was
\* updated and the die consumed
apply_move_LateCheck(s, move, player) ==
    IF move = None THEN [ok |-> FALSE, st |-> s]
    ELSE
    LET bar1 == IF move.from_pt = BAR THEN [s.bar EXCEPT ![player] = @ - 1] ELSE s.bar
        pts1 == IF move.from_pt = BAR THEN s.points
                ELSE IF player = PLAYER THEN [s.points EXCEPT ![move.from_pt] = @ - 1]
                     ELSE [s.points EXCEPT ![move.from_pt] = @ + 1]
        off == (player = PLAYER /\ move.to_pt >= 24) \/ (player = AI /\ move.to_pt <= -1)
        target_val == pts1[move.to_pt]
        bo2 == IF off THEN [s.bear_off EXCEPT ![player] = @ + 1] ELSE s.bear_off
        pts2 == IF off THEN pts1
                ELSE IF player = PLAYER
                     THEN IF target_val = -1 THEN [pts1 EXCEPT ![move.to_pt] = 1]
                          ELSE [pts1 EXCEPT ![move.to_pt] = @ + 1]
                     ELSE IF target_val = 1 THEN [pts1 EXCEPT ![move.to_pt] = -1]
                          ELSE [pts1 EXCEPT ![move.to_pt] = @ - 1]
        bar2 == IF off THEN bar1
                ELSE IF player = PLAYER
                     THEN IF target_val = -1 THEN [bar1 EXCEPT ![AI] = @ + 1] ELSE bar1
                     ELSE IF target_val = 1 THEN [bar1 EXCEPT ![PLAYER] = @ + 1] ELSE bar1
        dl2 == IF InList(s.dice_left, move.die_used)
               THEN RemoveFirst(s.dice_left, move.die_used) ELSE s.dice_left
    IN IF ~off /\ ~is_valid_dest(s, player, move.to_pt)
       THEN [ok |-> FALSE, st |-> [s EXCEPT !.points = pts1, !.bar = bar1, !.dice_left = dl2]]
       ELSE [ok |-> TRUE,
             st |-> [s EXCEPT !.points = pts2, !.bar = bar2, !.bear_off = bo2, !.dice_left = dl2]]

\* apply_move: [ok |-> the returned value, st |-> self after the call]
apply_move(s, move, player) ==
    IF move = None THEN [ok |-> FALSE, st |-> s]
    ELSE
    LET bar1 == IF move.from_pt = BAR THEN [s.bar EXCEPT ![player] = @ - 1] ELSE s.bar
        pts1 == IF move.from_pt = BAR THEN s.points
                ELSE IF player = PLAYER THEN [s.points EXCEPT ![move.from_pt] = @ - 1]
                     ELSE [s.points EXCEPT ![move.from_pt] = @ + 1]
        off == (player = PLAYER /\ move.to_pt >= 24) \/ (player = AI /\ move.to_pt <= -1)
        target_val == pts1[move.to_pt]
        bo2 == IF off THEN [s.bear_off EXCEPT ![player] = @ + 1] ELSE s.bear_off
        pts2 == IF off THEN pts1
                ELSE IF player = PLAYER
                     THEN IF target_val = -1 THEN [pts1 EXCEPT ![move.to_pt] = 1]
                          ELSE [pts1 EXCEPT ![move.to_pt] = @ + 1]
                     ELSE IF target_val = 1 THEN [pts1 EXCEPT ![move.to_pt] = -1]
                          ELSE [pts1 EXCEPT ![move.to_pt] = @ - 1]
        bar2 == IF off THEN bar1
                ELSE IF player = PLAYER
                     THEN IF target_val = -1 THEN [bar1 EXCEPT ![AI] = @ + 1] ELSE bar1
                     ELSE IF target_val = 1 THEN [bar1 EXCEPT ![PLAYER] = @ + 1] ELSE bar1
        dl2 == IF InList(s.dice_left, move.die_used)
               THEN RemoveFirst(s.dice_left, move.die_used) ELSE s.dice_left
    IN [ok |-> TRUE,
        st |-> [s EXCEPT !.points = pts2, !.bar = bar2, !.bear_off = bo2, !.dice_left = dl2]]

\* apply_move of backgmn_eminimax.py, the earlier GameState without a bar:
\* every test comes before the first write
apply_move_em(s, move, player) ==
    IF move = None THEN [ok |-> FALSE, st |-> s]
    ELSE IF move.from_pt < 0 \/ move.from_pt >= NUM_POINTS THEN [ok |-> FALSE, st |-> s]
    ELSE IF player = PLAYER /\ s.points[move.from_pt] <= 0 THEN [ok |-> FALSE, st |-> s]
    ELSE IF player # PLAYER /\ s.points[move.from_pt] >= 0 THEN [ok |-> FALSE, st |-> s]
    ELSE
    LET exit == IF player = PLAYER THEN NUM_POINTS ELSE -1
    IN IF move.to_pt # exit /\ (move.to_pt < 0 \/ move.to_pt >= NUM_POINTS)
       THEN [ok |-> FALSE, st |-> s]
       ELSE IF move.to_pt # exit /\ player = PLAYER /\ s.points[move.to_pt] < 0
       THEN [ok |-> FALSE, st |-> s]
       ELSE IF move.to_pt # exit /\ player # PLAYER /\ s.points[move.to_pt] > 0
       THEN [ok |-> FALSE, st |-> s]
       ELSE
       LET pts1 == [s.points EXCEPT ![move.from_pt] = @ - player]
           pts2 == IF move.to_pt = exit THEN pts1
                   ELSE [pts1 EXCEPT ![move.to_pt] = @ + player]
           bo2 == IF move.to_pt = exit THEN [s.bear_off EXCEPT ![player] = @ + 1]
                  ELSE s.bear_off
           dl2 == IF InList(s.dice_left, move.die_used)
                  THEN RemoveFirst(s.dice_left, move.die_used) ELSE s.dice_left
       IN [ok |-> TRUE,
           st |-> [s EXCEPT !.points = pts2, !.bear_off = bo2, !.dice_left = dl2]]

\* the points the loop of legal_single_moves_for_die does not skip
Occupied(s, player) ==
    {i \in Points : IF player = PLAYER THEN s.points[i] > 0 ELSE s.points[i] < 0}

RECURSIVE BoardMoves(_, _, _, _)
\* the loop of legal_single_moves_for_die over the points pts in rising order
BoardMoves(s, player, die, pts) ==
    IF pts = {} THEN <<>>
    ELSE LET i == CHOOSE p \in pts : \A q \in pts : p <= q
             dest == IF player = PLAYER THEN i + die ELSE i - die
             here == IF (player = PLAYER /\ dest >= 24) \/ (player = AI /\ dest <= -1)
                     THEN IF can_bear_off(s, player) THEN <<Move(i, dest, die)>> ELSE <<>>
                     ELSE IF 0 <= dest /\ dest <= 23
                          THEN IF is_valid_dest(s, player, dest)
                               THEN <<Move(i, dest, die)>> ELSE <<>>
                          ELSE <<>>
         IN here \o BoardMoves(s, player, die, pts \ {i})

\* legal_single_moves_for_die without the early return of the bar branch
legal_single_moves_for_die_NoReturn(s, player, die) ==
    (IF s.bar[player] > 0
     THEN LET dest == IF player = PLAYER THEN die - 1 ELSE 24 - die
          IN IF is_valid_dest(s, player, dest) THEN <<Move(BAR, dest, die)>> ELSE <<>>
     ELSE <<>>)
    \o BoardMoves(s, player, die, Occupied(s, player))

legal_single_moves_for_die(s, player, die) ==
    IF s.bar[player] > 0
    THEN LET dest == IF player = PLAYER THEN die - 1 ELSE 24 - die
         IN IF is_valid_dest(s, player, dest) THEN <<Move(BAR, dest, die)>> ELSE <<>>
    ELSE BoardMoves(s, player, die, Occupied(s, player))

\* ---- Move generation (gameState.py 157-220) ----
\* the elements of a list
Range(lst) == {lst[i] : i \in 1 .. Len(lst)}

Max2(a, b) == IF a > b THEN a ELSE b

\* In(v), the value v computed once
With(v, In(_)) == CHOOSE r \in {In(x) : x \in {v}} : TRUE

\* The effect on the caller's object of the writes made through objects that
\* share fields with it: per field, the last such write in program order.
WriteThrough(caller, items) ==
    IF \A i \in 1 .. Len(items) : ~items[i].written \/ items[i].st.alias = {}
    THEN caller
    ELSE [f \in DOMAIN caller |->
            LET W == {i \in 1 .. Len(items) : items[i].written /\ f \in items[i].st.alias}
            IN IF W = {} THEN caller[f]
               ELSE items[CHOOSE i \in W : \A j \in W : j <= i].st[f]]

\* dice_lists with the dice tried in the given order only
DiceLists_OneOrder(dice_tuple, flip) ==
    IF Len(dice_tuple) = 2 /\ dice_tuple[1] = dice_tuple[2]
    THEN << <<dice_tuple[1], dice_tuple[1], dice_tuple[1], dice_tuple[1]>> >>
    ELSE << dice_tuple >>

\* dice_lists without the expansion of a double given as a pair
DiceLists_NoExpansion(dice_tuple, flip) == << dice_tuple >>

\* dice_lists: doubles become four dice; otherwise the permutations of the
\* tuple, in the iteration order of a Python set, which the language leaves
\* open: `flip` picks it.  Callers pass a pair, a single die or equal dice.
DiceLists(dice_tuple, flip) ==
    IF Len(dice_tuple) = 2 /\ dice_tuple[1] = dice_tuple[2]
    THEN << <<dice_tuple[1], dice_tuple[1], dice_tuple[1], dice_tuple[1]>> >>
    ELSE IF Len(dice_tuple) = 2
         THEN IF flip THEN << <<dice_tuple[2], dice_tuple[1]>>, dice_tuple >>
              ELSE << dice_tuple, <<dice_tuple[2], dice_tuple[1]>> >>
         ELSE << dice_tuple >>

\* the iteration orders that differ: one unless the tuple is a non-double pair
Flips(dice_tuple) ==
    IF Len(dice_tuple) = 2 /\ dice_tuple[1] # dice_tuple[2] THEN BOOLEAN ELSE {FALSE}

\* one (seq, st) pair of the inner loop: carried over when blocked, else one
\* clone per legal move
ExpandItem(item, player, die) ==
    With(legal_single_moves_for_die(item.st, player, die), LAMBDA moves :
        IF moves = <<>> THEN << [item EXCEPT !.written = FALSE] >>
        ELSE [k \in 1 .. Len(moves) |->
                 [seq |-> Append(item.seq, moves[k]),
                  st |-> apply_move(clone(item.st), moves[k], player).st,
                  written |-> TRUE]])

RECURSIVE ExpandRange(_, _, _, _, _)
\* the inner loop over zip(sequences, states), items lo..hi in order
ExpandRange(items, lo, hi, player, die) ==
    IF lo > hi THEN <<>>
    ELSE IF lo = hi THEN ExpandItem(items[lo], player, die)
    ELSE LET mid == (lo + hi) \div 2
         IN ExpandRange(items, lo, mid, player, die)
            \o ExpandRange(items, mid + 1, hi, player, die)

RECURSIVE ExpandDice(_, _, _, _, _)
\* the loop over the dice of one ordering, from die k on:
\* [items |-> final (seq, st) pairs, self |-> the caller's object]
ExpandDice(items, caller, player, d_list, k) ==
    IF k > Len(d_list) THEN [items |-> items, self |-> caller]
    ELSE With(ExpandRange(items, 1, Len(items), player, d_list[k]), LAMBDA new :
             ExpandDice(new, WriteThrough(caller, new), player, d_list, k + 1))

RECURSIVE ExpandOrders(_, _, _, _, _)
\* the loop over dice_lists: [seqs |-> all_final_sequences, self |-> ...]
ExpandOrders(caller, player, dice_lists, k, acc) ==
    IF k > Len(dice_lists) THEN [seqs |-> acc, self |-> caller]
    ELSE LET root == << [seq |-> <<>>, st |-> clone(caller), written |-> FALSE] >>
         IN With(ExpandDice(root, caller, player, dice_lists[k], 1), LAMBDA r :
                ExpandOrders(r.self, player, dice_lists, k + 1,
                             acc \o [i \in 1 .. Len(r.items) |-> r.items[i].seq]))

RECURSIVE MaxLenOf(_, _, _)
MaxLenOf(seqs, lo, hi) ==
    IF lo > hi THEN 0
    ELSE IF lo = hi THEN Len(seqs[lo])
    ELSE LET mid == (lo + hi) \div 2
         IN Max2(MaxLenOf(seqs, lo, mid), MaxLenOf(seqs, mid + 1, hi))

RECURSIVE UniqueRange(_, _, _, _, _)
\* the `unique`/`seen` loop over items lo..hi, given the keys seen before lo
UniqueRange(seqs, lo, hi, max_len, seen) ==
    IF lo > hi THEN <<>>
    ELSE IF lo = hi
         THEN IF Len(seqs[lo]) = max_len /\ seqs[lo] \notin seen THEN <<seqs[lo]>> ELSE <<>>
    ELSE LET mid == (lo + hi) \div 2
             left == UniqueRange(seqs, lo, mid, max_len, seen)
         IN left \o UniqueRange(seqs, mid + 1, hi, max_len,
                                seen \cup {left[i] : i \in 1 .. Len(left)})

\* generate_all_sequences_for_dice: [ret |-> the returned list,
\* self |-> self after the call]
GenerateCall(s, player, dice_tuple, flip) ==
    With(ExpandOrders(s, player, DiceLists(dice_tuple, flip), 1, <<>>), LAMBDA all :
        LET all_final_sequences == all.seqs
        IN IF all_final_sequences = <<>> THEN [ret |-> <<>>, self |-> all.self]
           ELSE LET max_len == MaxLenOf(all_final_sequences, 1, Len(all_final_sequences))
                IN [ret |-> UniqueRange(all_final_sequences, 1, Len(all_final_sequences),
                                        max_len, {}),
                    self |-> all.self])

generate_all_sequences_for_dice(s, player, dice_tuple, flip) ==
    GenerateCall(s, player, dice_tuple, flip).ret


RECURSIVE Trail(_, _, _)
\* the objects met while replaying seq: before any move, after the first, ...
Trail(s, seq, player) ==
    IF seq = <<>> THEN <<s>>
    ELSE <<s>> \o Trail(apply_move(s, Head(seq), player).st, Tail(seq), player)

RECURSIVE Replay(_, _, _, _)
\* `for m in seq: st.apply_move(m, player)`, the first k moves: the object after
Replay(s, seq, player, k) ==
    IF k = 0 THEN s
    ELSE apply_move(Replay(s, seq, player, k - 1), seq[k], player).st

\* ---- Static evaluation, two-ply variant (csp_arc_consistency.py 15-125) ----
RECURSIVE Structure(_, _, _)
\* the loop "3. Structure & Safety" from point i on: blot penalties (K_BLOT,
\* 1.5 * K_BLOT in the home board, times 0.2 when PLAYER is on the bar) and
\* K_PRIME * consecutive_ai for a run of three or more made points
Structure(st, i, consecutive_ai) ==
    IF i > 23 THEN 0
    ELSE LET count == st.points[i]
         IN IF count = -1
            THEN (IF st.bar[PLAYER] > 0
                  THEN (IF i <= 5 THEN -75 ELSE -50)
                  ELSE (IF i <= 5 THEN -375 ELSE -250))
                 + Structure(st, i + 1, 0)
            ELSE IF count < 0
                 THEN (IF consecutive_ai + 1 >= 3 THEN 80 * (consecutive_ai + 1) ELSE 0)
                      + Structure(st, i + 1, consecutive_ai + 1)
                 ELSE Structure(st, i + 1, 0)

\* is_race_phase of evaluate_state: the highest point holding an AI checker
\* is below the lowest point holding a PLAYER checker, -1 standing for a side
\* with no checker on a point
is_race_phase(st) ==
    LET pl == {i \in Points : st.points[i] > 0}
        ai == {i \in Points : st.points[i] < 0}
        player_furthest_back == IF pl = {} THEN -1 ELSE CHOOSE i \in pl : \A j \in pl : i <= j
        ai_furthest_back == IF ai = {} THEN -1 ELSE CHOOSE i \in ai : \A j \in ai : j <= i
    IN ai_furthest_back < player_furthest_back

csp_evaluate_state(st) ==
    IF st.bear_off[AI] = 15 THEN 1000000
    ELSE IF st.bear_off[PLAYER] = 15 THEN -1000000
    ELSE
    LET pips_ai == pip_count(st, AI)
        pips_player == pip_count(st, PLAYER)
    IN IF is_race_phase(st)
       THEN -((pips_ai - pips_player) * 10) + st.bear_off[AI] * 1000
       ELSE -((pips_ai - pips_player) * 2)
            + st.bar[PLAYER] * 1000 - st.bar[AI] * 1000
            + Structure(st, 0, 0)
            + 150 * Cardinality({i \in {19, 20, 21} : st.points[i] <= -2})
            + st.bear_off[AI] * 500

\* the table kept from the previous search
clear_Kept(table) == table

\* transposition_table.clear()
clear(table) == <<>>

\* get_eval with the transposition table passed along
get_eval(table, st) ==
    LET key == <<st.points, st.bear_off[PLAYER], st.bear_off[AI], st.bar[PLAYER], st.bar[AI]>>
    IN IF key \in DOMAIN table THEN [val |-> table[key], cache |-> table, hit |-> TRUE]
       ELSE With(csp_evaluate_state(st), LAMBDA val :
                [val |-> val, cache |-> (key :> val) @@ table, hit |-> FALSE])

\* ---- Static evaluation, one-ply variant (expectiminimax.py 39-54) ----
top_k_ai == 14

\* evaluate_state: the score in twentieths, 20 * (30.0 * borne_diff
\* + 0.05 * pip_diff + 0.2 * (pieces_player - pieces_ai)), an integer
evaluate_state(st) ==
    LET borne_diff == st.bear_off[PLAYER] - st.bear_off[AI]
        pip_diff == pip_count(st, AI) - pip_count(st, PLAYER)
        pieces_player == SumOver(st.points, {i \in Points : st.points[i] > 0})
        pieces_ai == -SumOver(st.points, {i \in Points : st.points[i] < 0})
    IN 600 * borne_diff + pip_diff + 4 * (pieces_player - pieces_ai)

\* BMIN = 0.0 (in twentieths): a bound that single-outcome scores fall below
BMIN_Zero == 20 * 0

\* BMIN = -1_000_000.0 in twentieths
BMIN == -20000000

\* eval_cached: the key leaves the bar counts out
eval_cached(cache, st) ==
    LET key == <<st.points, st.bear_off[PLAYER], st.bear_off[AI]>>
    IN IF key \in DOMAIN cache THEN [val |-> cache[key], cache |-> cache, hit |-> TRUE]
       ELSE With(evaluate_state(st), LAMBDA val :
                [val |-> val, cache |-> (key :> val) @@ cache, hit |-> FALSE])

\* the evaluator and the cached evaluator of a search variant
StaticEval(variant, st) ==
    IF variant = "one_ply" THEN evaluate_state(st) ELSE csp_evaluate_state(st)

CachedEval(variant, cache, st) ==
    IF variant = "one_ply" THEN eval_cached(cache, st) ELSE get_eval(cache, st)

OutcomeRow(d1) ==
    [k \in 1 .. (7 - d1) |-> [outcome |-> <<d1, d1 + k - 1>>,
                              weight |-> IF k = 1 THEN 1 ELSE 2]]

\* the 21 unordered rolls, doubles of weight 1 and the others of weight 2
unordered_dice_outcomes_with_weights ==
    OutcomeRow(1) \o OutcomeRow(2) \o OutcomeRow(3)
    \o OutcomeRow(4) \o OutcomeRow(5) \o OutcomeRow(6)

RECURSIVE SumOf(_, _)
SumOf(vals, k) == IF k = 0 THEN 0 ELSE vals[k] + SumOf(vals, k - 1)

\* total_weight = sum(w for _, w in opp_outcomes)
total_weight ==
    SumOf([k \in 1 .. Len(unordered_dice_outcomes_with_weights) |->
              unordered_dice_outcomes_with_weights[k].weight],
          Len(unordered_dice_outcomes_with_weights))

\* list.sort(key = item.v), stable; reverse = TRUE keeps the order of equals
SortByValue(items, reverse) ==
    LET n == Len(items)
        Before(a, b) == IF reverse THEN a > b ELSE a < b
        pos == [k \in 1 .. n |->
                  1 + Cardinality({j \in 1 .. n : Before(items[j].v, items[k].v)})
                    + Cardinality({j \in 1 .. (k - 1) : items[j].v = items[k].v})]
    IN [q \in 1 .. n |-> items[CHOOSE k \in 1 .. n : pos[k] = q]]

\* the cut taken from the wrong end of the list: its last entry alone
FirstK_LastOnly(lst, k) == SubSeq(lst, Len(lst), Len(lst))

FirstK(lst, k) == SubSeq(lst, 1, IF Len(lst) < k THEN Len(lst) ELSE k)

\* `st = s.clone(); for m in seq: st.apply_move(m, player)`
Hypothetical(s, seq, player) == Replay(clone(s), seq, player, Len(seq))

\* one write-through step: obj was written when a move was applied to it
Written(caller, obj, seq) == WriteThrough(caller, << [st |-> obj, written |-> seq # <<>>] >>)

RECURSIVE ScoreRoot(_, _, _, _, _)
\* the scoring loop of a variant over the root sequences lo..hi:
\* [scored |-> the (v, seq, st) triples, self |-> the caller's object]
ScoreRoot(self, seqs, lo, hi, variant) ==
    IF lo > hi THEN [scored |-> <<>>, self |-> self]
    ELSE IF lo = hi
         THEN With(Hypothetical(self, seqs[lo], AI), LAMBDA st :
                  [scored |-> << [v |-> StaticEval(variant, st), seq |-> seqs[lo], st |-> st] >>,
                   self |-> Written(self, st, seqs[lo])])
    ELSE LET mid == (lo + hi) \div 2
         IN With(ScoreRoot(self, seqs, lo, mid, variant), LAMBDA left :
            With(ScoreRoot(left.self, seqs, mid + 1, hi, variant), LAMBDA right :
                [scored |-> left.scored \o right.scored, self |-> right.self]))

\* ---- One-ply search (expectiminimax.py 57-149) ----
RECURSIVE OppReplies(_, _, _, _, _, _)
\* the loop of a variant over opp_seqs lo..hi:
\* [vals |-> the values in order, self, cache]
OppReplies(st_after, opp_seqs, lo, hi, acc, variant) ==
    IF lo > hi THEN [vals |-> <<>>, self |-> acc.self, cache |-> acc.cache]
    ELSE IF lo = hi
         THEN With(Hypothetical(st_after, opp_seqs[lo], PLAYER), LAMBDA st2 :
              With(CachedEval(variant, acc.cache, st2), LAMBDA e :
                  [vals |-> <<e.val>>,
                   self |-> Written(acc.self, st2, opp_seqs[lo]),
                   cache |-> e.cache]))
    ELSE LET mid == (lo + hi) \div 2
         IN With(OppReplies(st_after, opp_seqs, lo, mid, acc, variant), LAMBDA left :
            With(OppReplies(st_after, opp_seqs, mid + 1, hi,
                            [self |-> left.self, cache |-> left.cache], variant),
                 LAMBDA right :
                [vals |-> left.vals \o right.vals,
                 self |-> right.self, cache |-> right.cache]))

\* max and min of a non-empty list of numbers
MaxOf(vals) == CHOOSE v \in Range(vals) : \A w \in Range(vals) : w <= v

MinOf(vals) == CHOOSE v \in Range(vals) : \A w \in Range(vals) : v <= w

\* float("inf"), above every expected value
INF == 1000000000

\* one opponent roll below a candidate: [val |-> the opponent's best value,
\* st |-> the candidate's object after, self, cache]
OnePlyReply(acc, o) ==
    With(GenerateCall(acc.st, PLAYER, o.outcome, FALSE), LAMBDA g :
        LET opp_seqs == g.ret
            self1 == WriteThrough(acc.self, << [st |-> g.self, written |-> g.self # acc.st] >>)
        IN IF opp_seqs = <<>>
           THEN With(eval_cached(acc.cache, g.self), LAMBDA e :
                    [val |-> e.val, st |-> g.self, self |-> self1, cache |-> e.cache])
           ELSE With(OppReplies(g.self, opp_seqs, 1, Len(opp_seqs),
                                [self |-> self1, cache |-> acc.cache], "one_ply"),
                     LAMBDA rs :
                    [val |-> MaxOf(rs.vals), st |-> g.self,
                     self |-> rs.self, cache |-> rs.cache]))

RECURSIVE OnePlyOutcomes(_, _, _, _)
\* the loop over opp_outcomes lo..hi for one candidate, left at the cutoff;
\* sums and best_expected are in 36ths
OnePlyOutcomes(lo, hi, best_expected, acc) ==
    IF lo = hi
    THEN With(unordered_dice_outcomes_with_weights[lo], LAMBDA o :
         With(OnePlyReply(acc, o), LAMBDA r :
             LET partial_sum == acc.partial_sum + o.weight * r.val
                 processed_w == acc.processed_w + o.weight
                 remaining_w == total_weight - processed_w
                 optimistic_total == partial_sum + remaining_w * BMIN
             IN [pruned |-> optimistic_total >= best_expected,
                 partial_sum |-> partial_sum, processed_w |-> processed_w,
                 st |-> r.st, self |-> r.self, cache |-> r.cache]))
    ELSE LET mid == (lo + hi) \div 2
         IN With(OnePlyOutcomes(lo, mid, best_expected, acc), LAMBDA left :
                IF left.pruned THEN left
                ELSE OnePlyOutcomes(mid + 1, hi, best_expected, left))

RECURSIVE OnePlyCandidates(_, _, _, _)
\* the loop over the candidates from index idx on
OnePlyCandidates(candidates, idx, best, acc) ==
    IF idx > Len(candidates)
    THEN [ret |-> IF best.set THEN best.seq ELSE candidates[1].seq,
          self |-> acc.self, cache |-> acc.cache, err |-> FALSE]
    ELSE LET c == candidates[idx]
         IN IF c.st.bear_off[AI] >= 15
            THEN [ret |-> c.seq, self |-> acc.self, cache |-> acc.cache, err |-> FALSE]
            ELSE With(OnePlyOutcomes(1, Len(unordered_dice_outcomes_with_weights),
                                best.expected,
                                [partial_sum |-> 0, processed_w |-> 0, pruned |-> FALSE,
                                 st |-> c.st, self |-> acc.self, cache |-> acc.cache]),
                      LAMBDA res :
                     IF ~res.pruned /\ res.partial_sum < best.expected
                     THEN OnePlyCandidates(candidates, idx + 1,
                              [set |-> TRUE, expected |-> res.partial_sum, seq |-> c.seq],
                              [self |-> res.self, cache |-> res.cache])
                     ELSE OnePlyCandidates(candidates, idx + 1, best,
                              [self |-> res.self, cache |-> res.cache]))

\* the test without the list it tests: every call returns [] at once
NoSequences_Always(seqs) == TRUE

\* `if not ai_sequences` / `if not root_moves`: the list is empty
NoSequences(seqs) == seqs = <<>>

\* `assert state.dice` compiled out
DiceSet_NoAssert(s) == TRUE

\* `assert state.dice, ...`: the first statement of both search variants
DiceSet(s) == s.dice # <<>>

\* expectiminimax_one_ply_with_cutoff2: [ret |-> the returned sequence,
\* self |-> the caller's object after the call, err |-> the assert failed]
OnePlyCall(s, flip) ==
    IF ~DiceSet(s) THEN [ret |-> <<>>, self |-> s, cache |-> <<>>, err |-> TRUE]
    ELSE With(GenerateCall(s, AI, s.dice, flip), LAMBDA g :
         LET ai_sequences == g.ret
         IN IF NoSequences(ai_sequences)
            THEN [ret |-> <<>>, self |-> g.self, cache |-> <<>>, err |-> FALSE]
            ELSE With(ScoreRoot(g.self, ai_sequences, 1, Len(ai_sequences), "one_ply"),
                      LAMBDA sc :
                 With(FirstK(SortByValue(sc.scored, FALSE), top_k_ai), LAMBDA candidates :
                     OnePlyCandidates(candidates, 1,
                                      [set |-> FALSE, expected |-> INF, seq |-> <<>>],
                                      [self |-> sc.self, cache |-> <<>>]))))

expectiminimax_one_ply_with_cutoff2(s, flip) == OnePlyCall(s, flip).ret

\* ---- Arc consistency (csp_arc_consistency.py 130-178) ----
\* A BackgammonCSP object is a record; `state` is the caller's object itself,
\* not a copy.  Variables are numbered from 1.  A domain is list(set): the
\* order of its elements is left open by the language and no result depends
\* on it; here it is the order of generation.
RECURSIVE initialize_domains(_, _)
\* _initialize_domains from variable var_idx on
initialize_domains(csp, var_idx) ==
    IF var_idx > Len(csp.dice) THEN csp
    ELSE LET die_val == csp.dice[var_idx]
         IN With(GenerateCall(csp.state, csp.player, <<die_val>>, FALSE), LAMBDA g :
            With(SelectSeq(g.ret, LAMBDA q : q # <<>>), LAMBDA valid_moves :
                initialize_domains(
                    [csp EXCEPT !.state = g.self,
                                !.domains = Append(@, [i \in 1 .. Len(valid_moves) |->
                                                          valid_moves[i][1]])],
                    var_idx + 1)))

BackgammonCSP(s, dice, player_id) ==
    initialize_domains([state |-> s, dice |-> dice, player |-> player_id,
                        variables |-> [i \in 1 .. Len(dice) |-> i],
                        domains |-> <<>>], 1)

\* is_consistent: [ret |-> the returned value, self |-> csp.state after]
is_consistent(csp, move_x, var_y_idx) ==
    LET die_val_y == csp.dice[var_y_idx]
    IN With(apply_move(clone(csp.state), move_x, csp.player).st, LAMBDA next_state :
       With(GenerateCall(next_state, csp.player, <<die_val_y>>, FALSE), LAMBDA g :
           LET possible_next_moves == g.ret
           IN [ret |-> Len(possible_next_moves) > 0,
               self |-> WriteThrough(csp.state,
                            << [st |-> next_state, written |-> TRUE],
                               [st |-> g.self, written |-> g.self # next_state] >>)]))

RECURSIVE ReviseFrom(_, _, _, _, _)
\* the loop of revise over list(domain_xi) from index k on; kept is the
\* domain so far
ReviseFrom(csp, xi, xj, k, vals) ==
    IF k > Len(vals) THEN [revised |-> FALSE, csp |-> csp]
    ELSE With(is_consistent(csp, vals[k], xj), LAMBDA c :
             LET csp1 == [csp EXCEPT !.state = c.self]
             IN IF ~c.ret
                THEN LET csp2 == [csp1 EXCEPT !.domains[xi] =
                                      SelectSeq(@, LAMBDA x : x # vals[k])]
                     IN [revised |-> TRUE, csp |-> ReviseFrom(csp2, xi, xj, k + 1, vals).csp]
                ELSE ReviseFrom(csp1, xi, xj, k + 1, vals))

\* revise: [revised |-> the returned value, csp |-> the object after]
revise(csp, xi, xj) == ReviseFrom(csp, xi, xj, 1, csp.domains[xi])

\* the arcs (i, j), i # j, in the order of the two nested loops
AllArcs(n) ==
    LET pairs == [k \in 1 .. (n * n) |-> <<((k - 1) \div n) + 1, ((k - 1) % n) + 1>>]
    IN SelectSeq(pairs, LAMBDA a : a[1] # a[2])

RECURSIVE AC3Loop(_, _)
\* `while queue`: [ret |-> the returned domains, csp |-> the object after]
AC3Loop(csp, queue) ==
    IF queue = <<>> THEN [ret |-> csp.domains, csp |-> csp]
    ELSE LET xi == Head(queue)[1]
             xj == Head(queue)[2]
         IN With(revise(csp, xi, xj), LAMBDA r :
                IF r.revised
                THEN IF r.csp.domains[xi] = <<>> THEN [ret |-> r.csp.domains, csp |-> r.csp]
                     ELSE AC3Loop(r.csp,
                              Tail(queue) \o
                              SelectSeq([k \in 1 .. Len(csp.dice) |-> <<k, xi>>],
                                        LAMBDA a : a[1] # xi /\ a[1] # xj))
                ELSE AC3Loop(r.csp, Tail(queue)))

run_ac3(csp) == AC3Loop(csp, AllArcs(Len(csp.dice)))

\* ---- Two-ply search (csp_arc_consistency.py 225-347) ----
BEAM_WIDTH == 4

RECURSIVE TwoPlyOutcomes(_, _, _)
\* the loop over the outcomes lo..hi for one beam candidate:
\* [vals |-> val_opp * w_opp per outcome, st, self, cache]
TwoPlyOutcomes(lo, hi, acc) ==
    IF lo = hi
    THEN With(unordered_dice_outcomes_with_weights[lo], LAMBDA o :
         With(GenerateCall(acc.st, PLAYER, o.outcome, FALSE), LAMBDA g :
             LET opp_moves == g.ret
                 self1 == WriteThrough(acc.self,
                              << [st |-> g.self, written |-> g.self # acc.st] >>)
             IN IF opp_moves = <<>>
                THEN With(get_eval(acc.cache, g.self), LAMBDA e :
                         [vals |-> <<e.val * o.weight>>, st |-> g.self,
                          self |-> self1, cache |-> e.cache])
                ELSE With(OppReplies(g.self, opp_moves, 1, Len(opp_moves),
                                     [self |-> self1, cache |-> acc.cache], "two_ply"),
                          LAMBDA rs :
                         [vals |-> <<MinOf(rs.vals) * o.weight>>, st |-> g.self,
                          self |-> rs.self, cache |-> rs.cache])))
    ELSE LET mid == (lo + hi) \div 2
         IN With(TwoPlyOutcomes(lo, mid, acc), LAMBDA left :
            With(TwoPlyOutcomes(mid + 1, hi, left), LAMBDA right :
                [vals |-> left.vals \o right.vals, st |-> right.st,
                 self |-> right.self, cache |-> right.cache]))

\* `return best_seq if best_seq else candidates[0][1]` with an empty best_seq
\* raising instead of falling back
TwoPlyReturn_Strict(best, candidates) ==
    IF best.set /\ best.seq # <<>> THEN [ret |-> best.seq, err |-> FALSE]
    ELSE [ret |-> <<>>, err |-> TRUE]

\* `return best_seq if best_seq else candidates[0][1]`; candidates[0] of an
\* empty list raises IndexError
TwoPlyReturn(best, candidates) ==
    IF best.set /\ best.seq # <<>> THEN [ret |-> best.seq, err |-> FALSE]
    ELSE IF candidates = <<>> THEN [ret |-> <<>>, err |-> TRUE]
    ELSE [ret |-> candidates[1].seq, err |-> FALSE]

RECURSIVE TwoPlyCandidates(_, _, _, _, _)
\* the loop over beam_candidates from index idx on; best.value is the best
\* expected value so far, in 36ths
TwoPlyCandidates(beam_candidates, idx, best, acc, candidates) ==
    IF idx > Len(beam_candidates)
    THEN With(TwoPlyReturn(best, candidates), LAMBDA r :
             [ret |-> r.ret, self |-> acc.self, cache |-> acc.cache, err |-> r.err])
    ELSE LET c == beam_candidates[idx]
         IN IF c.st.bear_off[AI] = 15
            THEN [ret |-> c.seq, self |-> acc.self, cache |-> acc.cache, err |-> FALSE]
            ELSE With(TwoPlyOutcomes(1, Len(unordered_dice_outcomes_with_weights),
                                [vals |-> <<>>, st |-> c.st,
                                 self |-> acc.self, cache |-> acc.cache]),
                      LAMBDA res :
                 With(SumOf(res.vals, Len(res.vals)), LAMBDA weighted_score_sum :
                     IF weighted_score_sum > best.value
                     THEN TwoPlyCandidates(beam_candidates, idx + 1,
                              [set |-> TRUE, value |-> weighted_score_sum, seq |-> c.seq],
                              [self |-> res.self, cache |-> res.cache], candidates)
                     ELSE TwoPlyCandidates(beam_candidates, idx + 1, best,
                              [self |-> res.self, cache |-> res.cache], candidates)))

\* "PHASE 1": the moves left in some domain after run_ac3; used = FALSE stands
\* for valid_start_moves = None
CspFilter(s) ==
    IF Len(s.dice) >= 2
    THEN With(run_ac3(BackgammonCSP(s, s.dice, AI)), LAMBDA r :
             [used |-> TRUE, self |-> r.csp.state,
              valid_start_moves |-> UNION {Range(r.ret[v]) : v \in 1 .. Len(r.ret)}])
    ELSE [used |-> FALSE, self |-> s, valid_start_moves |-> {}]

\* "Apply CSP Filter" with every surviving sequence cut to its first move
FilterRoots_FirstMoves(root_moves, f) ==
    IF f.used /\ f.valid_start_moves # {}
    THEN LET filtered == SelectSeq(root_moves,
                             LAMBDA q : q # <<>> /\ q[1] \in f.valid_start_moves)
         IN IF filtered # <<>> THEN [k \in 1 .. Len(filtered) |-> <<filtered[k][1]>>]
            ELSE root_moves
    ELSE root_moves

\* "Apply CSP Filter" without the `if valid_start_moves:` and `if filtered:`
\* tests
FilterRoots_NoFallback(root_moves, f) ==
    SelectSeq(root_moves, LAMBDA q : q # <<>> /\ q[1] \in f.valid_start_moves)

\* "Apply CSP Filter": root_moves after the filter
FilterRoots(root_moves, f) ==
    IF f.used /\ f.valid_start_moves # {}
    THEN LET filtered == SelectSeq(root_moves,
                             LAMBDA q : q # <<>> /\ q[1] \in f.valid_start_moves)
         IN IF filtered # <<>> THEN filtered ELSE root_moves
    ELSE root_moves

\* what a call of expectiminimax_two_ply worked on: the list returned by
\* generate_all_sequences_for_dice, root_moves after the filter, the set
\* valid_start_moves (used = FALSE: None) and the sequences of candidates
RootTrace(unfiltered, root_moves, f, candidates) ==
    [unfiltered |-> unfiltered, root_moves |-> root_moves,
     used |-> f.used, valid_start_moves |-> f.valid_start_moves,
     candidates |-> [k \in 1 .. Len(candidates) |-> candidates[k].seq]]

NoFilter == [used |-> FALSE, valid_start_moves |-> {}]

\* expectiminimax_two_ply called with transposition_table = table:
\* [ret |-> the returned sequence, self |-> the caller's object after the call,
\* cache |-> transposition_table after, err |-> an exception left the call,
\* trace |-> the lists it worked on]
TwoPlyCall(s, table, flip) ==
    IF ~DiceSet(s)
    THEN [ret |-> <<>>, self |-> s, cache |-> table, err |-> TRUE,
          trace |-> RootTrace(<<>>, <<>>, NoFilter, <<>>)]
    ELSE With(CspFilter(s), LAMBDA f :
         With(GenerateCall(f.self, AI, s.dice, flip), LAMBDA g :
            IF NoSequences(g.ret)
            THEN [ret |-> <<>>, self |-> g.self, cache |-> clear(table), err |-> FALSE,
                  trace |-> RootTrace(g.ret, <<>>, f, <<>>)]
            ELSE With(FilterRoots(g.ret, f), LAMBDA root_moves :
                 With(ScoreRoot(g.self, root_moves, 1, Len(root_moves), "two_ply"),
                      LAMBDA sc :
                 With(SortByValue(sc.scored, TRUE), LAMBDA candidates :
                 With(TwoPlyCandidates(FirstK(candidates, BEAM_WIDTH), 1,
                                       [set |-> FALSE, value |-> -INF, seq |-> <<>>],
                                       [self |-> sc.self, cache |-> clear(table)], candidates),
                      LAMBDA r :
                     [ret |-> r.ret, self |-> r.self, cache |-> r.cache, err |-> r.err,
                      trace |-> RootTrace(g.ret, root_moves, f, candidates)]))))))

expectiminimax_two_ply(s, flip) == TwoPlyCall(s, <<>>, flip).ret

\* ---- The turn loop (backgmn.py 517-562, experiment.py 76-148) ----
\* transposition_table is the module-level dict of csp_arc_consistency.py
VARIABLES state, pc, turn, last, transposition_table, ui

vars == <<state, pc, turn, last, transposition_table, ui>>

\* Python's None where a point index or "BAR" may stand (selected_point, the
\* result of screen_to_point)
Nothing == -100

\* BackgammonUI.__init__: the fields next to self.state
NewUi == [selected_point |-> Nothing, need_roll |-> TRUE, running |-> TRUE]

\* Bounds of the exploration: turns played per game, and the number of
\* checkers in play up to which a position is played on after its first turn.
MaxTurns == 1
MaxInPlay == 3

\* A position of a game in progress: checkers per point and on the bar for
\* each side, the rest of the 15 borne off.
Position(pl, ai, bar_pl, bar_ai) ==
    [NewGameState EXCEPT
        !.points = [i \in Points |-> IF i \in DOMAIN pl THEN pl[i]
                                     ELSE IF i \in DOMAIN ai THEN -ai[i] ELSE 0],
        !.bar = [s \in Sides |-> IF s = PLAYER THEN bar_pl ELSE bar_ai],
        !.bear_off = [s \in Sides |->
            IF s = PLAYER
            THEN TOTAL_CHECKERS - bar_pl - SumTo([i \in Points |-> IF i \in DOMAIN pl THEN pl[i] ELSE 0], 23)
            ELSE TOTAL_CHECKERS - bar_ai - SumTo([i \in Points |-> IF i \in DOMAIN ai THEN ai[i] ELSE 0], 23)],
        !.alias = MutableFields]

StartStates ==
    { setup_standard([NewGameState EXCEPT !.alias = MutableFields]),
      \* both sides bearing off
      Position((18 :> 1) @@ (20 :> 1) @@ (22 :> 1), (5 :> 1) @@ (3 :> 1) @@ (1 :> 1), 0, 0),
      \* PLAYER on the bar, the entry points of dice 3 and 5 held by AI
      Position((20 :> 2), (2 :> 2) @@ (4 :> 2), 1, 0),
      \* AI on the bar, the entry points of dice 1 and 3 held by PLAYER
      Position((23 :> 2) @@ (21 :> 2), (4 :> 2), 0, 1),
      \* blots of both sides within reach of each other
      Position((17 :> 1) @@ (19 :> 2), (20 :> 1) @@ (6 :> 1) @@ (3 :> 1), 0, 0),
      \* one ordering of the dice blocked at its first step
      Position((0 :> 1), (3 :> 2) @@ (2 :> 1), 0, 0),
      Position((10 :> 2), (23 :> 1) @@ (20 :> 2), 0, 0),
      \* all thirty checkers in play, AI's last runner a blot in front of
      \* PLAYER's last two checkers
      Position((12 :> 2) @@ (18 :> 5) @@ (19 :> 4) @@ (20 :> 4),
               (14 :> 1) @@ (5 :> 5) @@ (4 :> 5) @@ (3 :> 4), 0, 0) }

InPlay(s) == 2 * TOTAL_CHECKERS - s.bear_off[PLAYER] - s.bear_off[AI]

GameOver(s) == s.bear_off[PLAYER] >= TOTAL_CHECKERS \/ s.bear_off[AI] >= TOTAL_CHECKERS

NoCall == [op |-> "none", ok |-> TRUE]

Init ==
    /\ \E s \in StartStates, p \in Sides : state = [s EXCEPT !.current_player = p]
    /\ pc = "roll"
    /\ turn = 0
    /\ last = NoCall
    /\ transposition_table = <<>>
    /\ ui = NewUi

\* d1 = random.randint(1, 6); d2 = random.randint(1, 6); dice and dice_left set
Roll(d1, d2) ==
    /\ pc = "roll"
    /\ ~GameOver(state)
    /\ turn < MaxTurns
    /\ turn = 0 \/ InPlay(state) <= MaxInPlay
    /\ state' = [state EXCEPT !.dice = <<d1, d2>>,
                              !.dice_left = IF d1 = d2 THEN <<d1, d1, d1, d1>> ELSE <<d1, d2>>]
    /\ pc' = "move"
    /\ last' = NoCall
    /\ UNCHANGED <<turn, transposition_table, ui>>

\* the side to move applies one of the sequences generated for its dice, move
\* by move; then the dice are cleared and the turn passes
Play(seq) ==
    /\ pc = "move"
    /\ LET after == Replay(state, seq, state.current_player, Len(seq))
       IN state' = [after EXCEPT !.dice = <<>>, !.dice_left = <<>>,
                                 !.current_player = -state.current_player]
    /\ pc' = "roll"
    /\ turn' = turn + 1
    /\ last' = [op |-> "play", ok |-> TRUE, pre |-> state, seq |-> seq,
                player |-> state.current_player]
    /\ UNCHANGED <<transposition_table, ui>>

Turn ==
    \E flip \in Flips(state.dice) :
        \E seq \in Range(generate_all_sequences_for_dice(state, state.current_player, state.dice, flip)) :
            Play(seq)

Next ==
    \/ \E d1 \in 1 .. 6, d2 \in 1 .. 6 : Roll(d1, d2)
    \/ Turn

Spec == Init /\ [][Next]_vars

\* ---- apply_move called by a client with a move of its own ----
\* (backgmn.py 533-537: the return value is tested by the caller)
ApiStartStates ==
    { Position((17 :> 1) @@ (19 :> 2), (20 :> 1) @@ (6 :> 1) @@ (3 :> 1), 0, 0),
      Position((20 :> 2), (2 :> 2) @@ (4 :> 2), 1, 0),
      Position((18 :> 1) @@ (20 :> 1) @@ (22 :> 1), (5 :> 1) @@ (3 :> 1) @@ (1 :> 1), 0, 0) }

ApiRolls == { <<3, 1>>, <<2, 2>> }

\* the moves of die d a client may name for a side: from the bar to the entry
\* point, or from a point d points on, a destination past the last point
\* being a bear-off; and None
ApiMoves(player) ==
    {None}
    \cup {Move(BAR, IF player = PLAYER THEN d - 1 ELSE 24 - d, d) : d \in 1 .. 6}
    \cup {Move(i, i + player * d, d) : i \in Points, d \in 1 .. 6}

InitApi ==
    /\ \E s \in ApiStartStates, r \in ApiRolls :
          state = [s EXCEPT !.dice = r,
                            !.dice_left = IF r[1] = r[2] THEN <<r[1], r[1], r[1], r[1]>> ELSE r]
    /\ pc = "call"
    /\ turn = 0
    /\ last = NoCall
    /\ transposition_table = <<>>
    /\ ui = NewUi

Returned(op, s, move, player, r) ==
    [op |-> op, ok |-> r.ok, move |-> move, player |-> player, pre |-> s]

CallApplyMove(move, player) ==
    /\ pc = "call"
    /\ LET r == apply_move(state, move, player)
       IN /\ state' = r.st
          /\ last' = Returned("apply_move", state, move, player, r)
    /\ pc' = "returned"
    /\ UNCHANGED <<turn, transposition_table, ui>>

\* the GameState of backgmn_eminimax.py has no bar: only moves from a point
CallApplyMoveEm(move, player) ==
    /\ pc = "call"
    /\ IF move = None THEN TRUE ELSE move.from_pt # BAR
    /\ LET r == apply_move_em(state, move, player)
       IN /\ state' = r.st
          /\ last' = Returned("apply_move_em", state, move, player, r)
    /\ pc' = "returned"
    /\ UNCHANGED <<turn, transposition_table, ui>>

\* calls of apply_move made after a clone, on the clone and on its source
MaxCloneMoves == 2

\* the moves tried on an object: the legal single moves of the rolled dice
CloneMoves(s, player) ==
    UNION {Range(legal_single_moves_for_die(s, player, d)) : d \in Range(s.dice)}

\* c = state.clone().  last.clone is the object c; last.source_alone and
\* last.clone_alone are what the two objects hold when each of them had its
\* own lists and dicts
CallClone ==
    /\ pc = "call"
    /\ last' = [op |-> "clone", ok |-> TRUE, pre |-> state, clone |-> clone(state),
                source_alone |-> state, clone_alone |-> state,
                on_clone |-> 0, on_source |-> 0]
    /\ pc' = "cloned"
    /\ UNCHANGED <<state, turn, transposition_table, ui>>

\* c.apply_move(move, player): what c shares with its source is written in both
CloneApplyMove(move, player) ==
    /\ pc = "cloned"
    /\ last.on_clone + last.on_source < MaxCloneMoves
    /\ move \in CloneMoves(last.clone, player)
    /\ LET r == apply_move(last.clone, move, player)
       IN /\ state' = [f \in DOMAIN state |->
                          IF f \in last.clone.alias THEN r.st[f] ELSE state[f]]
          /\ last' = [last EXCEPT !.clone = r.st,
                                  !.clone_alone = apply_move(@, move, player).st,
                                  !.on_clone = @ + 1]
    /\ UNCHANGED <<pc, turn, transposition_table, ui>>

\* state.apply_move(move, player) while c exists
SourceApplyMove(move, player) ==
    /\ pc = "cloned"
    /\ last.on_clone + last.on_source < MaxCloneMoves
    /\ move \in CloneMoves(state, player)
    /\ LET r == apply_move(state, move, player)
       IN /\ state' = r.st
          /\ last' = [last EXCEPT !.clone = [f \in DOMAIN @ |->
                                                IF f \in @.alias THEN r.st[f] ELSE @[f]],
                                  !.source_alone = apply_move(@, move, player).st,
                                  !.on_source = @ + 1]
    /\ UNCHANGED <<pc, turn, transposition_table, ui>>

NextApi ==
    \/ \E p \in Sides : \E m \in ApiMoves(p) : CallApplyMove(m, p)
    \/ \E p \in Sides : \E m \in ApiMoves(p) : CallApplyMoveEm(m, p)
    \/ CallClone
    \/ \E p \in Sides : \E m \in ApiMoves(p) : CloneApplyMove(m, p)
    \/ \E p \in Sides : \E m \in ApiMoves(p) : SourceApplyMove(m, p)

SpecApi == InitApi /\ [][NextApi]_vars

\* ---- The AI turn with either search variant (backgmn.py 517-562) and the
\* engine's entry points called on the state of the game ----
\* the standard starting position
OpeningState == setup_standard([NewGameState EXCEPT !.alias = MutableFields])

\* the roll of the opening
OpeningRolls == { <<3, 1>> }

SearchStartStates ==
    { OpeningState,
      \* blots of both sides within reach of each other
      Position((17 :> 1) @@ (19 :> 2), (20 :> 1) @@ (6 :> 1) @@ (3 :> 1), 0, 0),
      \* AI on the bar, the entry points of dice 1 and 3 held by PLAYER
      Position((23 :> 2) @@ (21 :> 2), (4 :> 2), 0, 1),
      \* AI one checker from winning
      Position((22 :> 1) @@ (23 :> 1), (0 :> 1), 0, 0),
      \* AI two checkers from winning: some plays of a roll win, others do not
      Position((20 :> 1) @@ (23 :> 1), (2 :> 1) @@ (5 :> 1), 0, 0),
      \* both sides bearing off
      Position((18 :> 1) @@ (20 :> 1) @@ (22 :> 1), (5 :> 1) @@ (3 :> 1) @@ (1 :> 1), 0, 0),
      \* AI has to pass PLAYER's point
      Position((10 :> 2), (23 :> 1) @@ (20 :> 2), 0, 0),
      \* PLAYER on the bar
      Position((20 :> 2), (2 :> 2) @@ (4 :> 2), 1, 0) }

\* transposition_table is a module-level dict: a turn can start with what the
\* two-ply search of an earlier turn left in it.  EarlierTable is the table
\* left by the search of roll (1, 2) two checkers from the end.
EarlierTable ==
    TwoPlyCall([Position((20 :> 1) @@ (23 :> 1), (2 :> 1) @@ (5 :> 1), 0, 0)
                   EXCEPT !.current_player = AI, !.dice = <<1, 2>>, !.dice_left = <<1, 2>>],
               <<>>, FALSE).cache

\* the tables a run starts with: empty, and for one position also a filled one
TablesBefore(s) ==
    IF s = Position((20 :> 2), (2 :> 2) @@ (4 :> 2), 1, 0)
    THEN {<<>>, EarlierTable} ELSE {<<>>}

InitSearch ==
    /\ \E s \in SearchStartStates :
          /\ state = [s EXCEPT !.current_player = AI]
          /\ transposition_table \in TablesBefore(s)
    /\ pc = "ai_roll"
    /\ turn = 0
    /\ last = NoCall
    /\ ui = NewUi

\* the rolls of the search runs, the lower die first (both orders of play
\* are covered by the two iteration orders of dice_lists): small and large
\* mixed rolls and doubles, among them rolls that enter from the bar, hit a
\* blot, bear off, and leave no legal move
SearchRolls ==
    { <<1, 2>>, <<1, 3>>, <<2, 5>>, <<3, 4>>, <<4, 6>>, <<1, 6>>, <<2, 2>>, <<5, 5>> }

\* the full board is searched for the opening roll only
RollsFor(s) == IF s.points = OpeningState.points THEN OpeningRolls ELSE SearchRolls

\* do_ai_turn, the roll
AiRoll(d1, d2) ==
    /\ pc = "ai_roll"
    /\ <<d1, d2>> \in RollsFor(state)
    /\ state' = [state EXCEPT !.dice = <<d1, d2>>,
                              !.dice_left = IF d1 = d2 THEN <<d1, d1, d1, d1>> ELSE <<d1, d2>>]
    /\ pc' = "search"
    /\ UNCHANGED <<turn, last, transposition_table, ui>>

SearchResult(op, s, r) ==
    [op |-> op, ok |-> TRUE, ret |-> r.ret, pre |-> s, rest |-> r.ret]

\* where a client calls a search variant: in do_ai_turn after the roll, or
\* outside a rolled turn, before the roll or after the dice were cleared
SearchCallSites == {"search", "ai_roll", "done"}

\* seq = expectiminimax_one_ply_with_cutoff2(self.state); eval_cache is local
\* to the call.  An exception leaves the caller: "failed".
SearchOnePly(flip) ==
    /\ pc \in SearchCallSites
    /\ \E r \in {OnePlyCall(state, flip)} :
          /\ state' = r.self
          /\ last' = [err |-> r.err, table |-> transposition_table, flip |-> flip,
                       eval_cache |-> r.cache]
                      @@ SearchResult("one_ply", state, r)
          /\ pc' = IF r.err THEN "failed" ELSE "searched"
    /\ UNCHANGED <<turn, transposition_table, ui>>

\* seq = expectiminimax_two_ply(self.state)
SearchTwoPly(flip) ==
    /\ pc \in SearchCallSites
    /\ \E r \in {TwoPlyCall(state, transposition_table, flip)} :
          /\ state' = r.self
          /\ transposition_table' = r.cache
          /\ last' = [err |-> r.err, table |-> transposition_table, trace |-> r.trace,
                       flip |-> flip]
                      @@ SearchResult("two_ply", state, r)
          /\ pc' = IF r.err THEN "failed" ELSE "searched"
    /\ UNCHANGED <<turn, ui>>

\* self.state.generate_all_sequences_for_dice(player, dice)
CallGenerate(player, flip) ==
    /\ pc = "search"
    /\ \E r \in {GenerateCall(state, player, state.dice, flip)} :
          /\ state' = r.self
          /\ last' = SearchResult("generate", state, r)
    /\ pc' = "called"
    /\ UNCHANGED <<turn, transposition_table, ui>>

\* BackgammonCSP(self.state, dice, player).run_ac3()
CallRunAc3(player) ==
    /\ pc = "search"
    /\ \E csp \in {BackgammonCSP(state, state.dice, player)} :
       \E r \in {run_ac3(csp)} :
          /\ state' = r.csp.state
          /\ last' = [player |-> player, initial |-> csp.domains]
                      @@ SearchResult("run_ac3", state, r)
    /\ pc' = "called"
    /\ UNCHANGED <<turn, transposition_table, ui>>

\* csp = BackgammonCSP(self.state, dice, player); csp.revise(xi, xj)
CallRevise(player, xi, xj) ==
    /\ pc = "search"
    /\ xi \in 1 .. Len(state.dice) /\ xj \in 1 .. Len(state.dice) /\ xi # xj
    /\ \E csp \in {BackgammonCSP(state, state.dice, player)} :
       \E r \in {revise(csp, xi, xj)} :
          /\ state' = r.csp.state
          /\ last' = [op |-> "revise", ok |-> TRUE, player |-> player, xi |-> xi, xj |-> xj,
                      initial |-> csp.domains, ret |-> r.csp.domains,
                      revised |-> r.revised, pre |-> state]
    /\ pc' = "called"
    /\ UNCHANGED <<turn, transposition_table, ui>>

\* the parameters of the search variants (expectiminimax.py 57,
\* csp_arc_consistency.py 225)
Parameters ==
    [one_ply |-> {"state", "top_k_ai", "top_k_opp", "verbose"},
     two_ply |-> {"state", "verbose"}]

\* a call binds its keyword arguments to parameters of those names
KeywordsAccepted(variant, keywords) == keywords \subseteq Parameters[variant]

\* run_experiment: best_sequence = ai1_logic(state, player_id=PLAYER_1) and
\* ai2_logic(state, player_id=PLAYER_2).  A keyword that is no parameter
\* raises TypeError before the body runs and nothing catches it; with the
\* keyword accepted the call would be the plain one, SearchOnePly or
\* SearchTwoPly.
ExperimentCall(variant, player_id) ==
    /\ pc = "search"
    /\ ~KeywordsAccepted(variant, {"player_id"})
    /\ last' = [op |-> "experiment_call", ok |-> FALSE, err |-> TRUE, variant |-> variant,
                player_id |-> player_id, pre |-> state, ret |-> <<>>, rest |-> <<>>]
    /\ pc' = "failed"
    /\ UNCHANGED <<state, turn, transposition_table, ui>>

\* `for m in seq: applied = self.state.apply_move(m, AI)`, one move
ApplyReturnedMove ==
    /\ pc \in {"searched", "apply"}
    /\ last.rest # <<>>
    /\ \E r \in {apply_move(state, Head(last.rest), AI)} :
          /\ state' = r.st
          /\ last' = [last EXCEPT !.rest = Tail(@), !.ok = @ /\ r.ok]
    /\ pc' = "apply"
    /\ UNCHANGED <<turn, transposition_table, ui>>

\* the dice are cleared and the turn goes back to PLAYER, who has to roll;
\* back in run(), a finished game stops the loop
EndAiTurn ==
    /\ pc \in {"searched", "apply"}
    /\ last.rest = <<>>
    /\ state' = [state EXCEPT !.dice = <<>>, !.dice_left = <<>>, !.current_player = PLAYER]
    /\ pc' = "done"
    /\ turn' = turn + 1
    /\ ui' = [ui EXCEPT !.need_roll = TRUE, !.running = @ /\ ~GameOver(state)]
    /\ UNCHANGED <<last, transposition_table>>

NextSearch ==
    \/ \E d1 \in 1 .. 6, d2 \in 1 .. 6 : AiRoll(d1, d2)
    \/ \E flip \in Flips(state.dice) : SearchOnePly(flip)
    \/ \E flip \in Flips(state.dice) : SearchTwoPly(flip)
    \/ \E p \in Sides : \E flip \in Flips(state.dice) : CallGenerate(p, flip)
    \/ \E p \in Sides : CallRunAc3(p)
    \/ \E p \in Sides : \E xi \in 1 .. 2, xj \in 1 .. 2 : CallRevise(p, xi, xj)
    \/ \E variant \in DOMAIN Parameters, p \in Sides : ExperimentCall(variant, p)
    \/ ApplyReturnedMove
    \/ EndAiTurn

SpecSearch == InitSearch /\ [][NextSearch]_vars

\* ---- run_ac3 step by step (csp_arc_consistency.py 166-178) ----
\* (the full board apart: its domains are those of C19)
\* the dice tuples a CSP is built for: state.dice as the UI sets it (two
\* dice, doubles as a pair) and as run_experiment sets it (doubles as four)
Ac3Dice == SearchRolls \cup { <<2, 2, 2, 2>>, <<5, 5, 5, 5>> }

\* the queue after one arc was popped and revised, with the popped arc put
\* back whenever nothing was removed
Requeue_PutBack(queue, revised, xi, xj, n) ==
    IF revised
    THEN Tail(queue) \o SelectSeq([k \in 1 .. n |-> <<k, xi>>],
                                  LAMBDA a : a[1] # xi /\ a[1] # xj)
    ELSE Tail(queue) \o << <<xi, xj>> >>

\* the queue after (xi, xj) was popped and revised: `for xk in self.variables:
\* if xk != xi and xk != xj: queue.append((xk, xi))` under `if self.revise(..)`
Requeue(queue, revised, xi, xj, n) ==
    IF revised
    THEN Tail(queue) \o SelectSeq([k \in 1 .. n |-> <<k, xi>>],
                                  LAMBDA a : a[1] # xi /\ a[1] # xj)
    ELSE Tail(queue)

InitAc3 ==
    /\ \E s \in SearchStartStates \ {OpeningState}, r \in Ac3Dice :
          state = [s EXCEPT !.current_player = AI, !.dice = r, !.dice_left = r]
    /\ pc = "ac3_call"
    /\ turn = 0
    /\ last = NoCall
    /\ transposition_table = <<>>
    /\ ui = NewUi

\* csp = BackgammonCSP(state, dice, player); csp.run_ac3() up to the loop:
\* the queue of all ordered pairs of distinct variables.  `last` is the frame
\* of the running call.
Ac3Enter(player) ==
    /\ pc = "ac3_call"
    /\ \E csp \in {BackgammonCSP(state, state.dice, player)} :
          /\ state' = csp.state
          /\ last' = [op |-> "ac3", ok |-> TRUE, csp |-> csp, initial |-> csp,
                      queue |-> AllArcs(Len(csp.dice)), popped |-> 0, removed |-> FALSE]
    /\ pc' = "ac3_loop"
    /\ UNCHANGED <<turn, transposition_table, ui>>

\* one iteration of `while queue`
Ac3Step ==
    /\ pc = "ac3_loop"
    /\ last.queue # <<>>
    /\ LET xi == Head(last.queue)[1]
           xj == Head(last.queue)[2]
       IN \E r \in {revise(last.csp, xi, xj)} :
             /\ state' = r.csp.state
             /\ last' = [last EXCEPT !.csp = r.csp,
                                     !.queue = Requeue(@, r.revised, xi, xj, Len(last.csp.dice)),
                                     !.popped = IF @ < Len(last.initial.dice) * Len(last.initial.dice)
                                                THEN @ + 1 ELSE @,
                                     !.removed = r.revised]
             /\ pc' = IF r.revised /\ r.csp.domains[xi] = <<>> THEN "ac3_returned"
                      ELSE "ac3_loop"
    /\ UNCHANGED <<turn, transposition_table, ui>>

\* the queue is empty: return self.domains
Ac3Return ==
    /\ pc = "ac3_loop"
    /\ last.queue = <<>>
    /\ pc' = "ac3_returned"
    /\ UNCHANGED <<state, turn, last, transposition_table, ui>>

NextAc3 ==
    \/ \E p \in Sides : Ac3Enter(p)
    \/ Ac3Step
    \/ Ac3Return

\* the interpreter goes on running the loop
SpecAc3 == InitAc3 /\ [][NextAc3]_vars /\ WF_vars(NextAc3)

\* ---- The interactive turn of PLAYER (backgmn.py 258-515) ----
\* where the event loop of run() waits for the next event
UiIdle == {"player", "done"}

\* the turns in which PLAYER may roll, and the number of checkers in play up
\* to which PLAYER rolls again after the first turn
MaxUiTurns == 1
MaxUiInPlay == 3

is_farthest_checker(s, pt_idx) ==
    /\ 18 <= pt_idx /\ pt_idx <= 23
    /\ \A i \in 18 .. (pt_idx - 1) : s.points[i] <= 0

\* the loop body of get_legal_destinations_mapping_for_selected: die d takes
\* the selected checker to the key dest of the mapping, 24 the bear-off box
DieReaches(s, sp, d, dest) ==
    IF sp = BAR THEN dest = d - 1 /\ is_valid_dest(s, PLAYER, d - 1)
    ELSE IF sp + d < 24 THEN dest = sp + d /\ is_valid_dest(s, PLAYER, sp + d)
    ELSE /\ dest = 24
         /\ can_bear_off(s, PLAYER)
         /\ (sp + d = 24 \/ (sp + d > 24 /\ is_farthest_checker(s, sp)))

\* destination -> the dice of dice_left that reach it, in the order of dice_left
get_legal_destinations_mapping_for_selected(s, u) ==
    IF u.selected_point = Nothing THEN <<>>
    ELSE [dest \in {x \in 0 .. 24 : \E k \in 1 .. Len(s.dice_left) :
                        DieReaches(s, u.selected_point, s.dice_left[k], x)}
            |-> SelectSeq(s.dice_left, LAMBDA d : DieReaches(s, u.selected_point, d, dest))]

\* dice_options.sort(); d = dice_options[0]
SmallestOf(dice_options) ==
    CHOOSE d \in Range(dice_options) : \A e \in Range(dice_options) : d <= e

\* any(len(seq) > 0 for seq in possible_sequences)
has_legal_moves(possible_sequences) ==
    \E k \in 1 .. Len(possible_sequences) : Len(possible_sequences[k]) > 0

\* the handler returns to the event loop
Waits(s, u) == [st |-> s, ui |-> u, pc |-> "player"]

\* end_player_turn without `self.state.dice = ()` and `self.state.dice_left = []`
end_player_turn_KeepsDice(s, u) ==
    IF s.bear_off[PLAYER] >= 15 THEN Waits(s, [u EXCEPT !.running = FALSE])
    ELSE [st |-> [s EXCEPT !.current_player = AI],
          ui |-> [u EXCEPT !.need_roll = TRUE],
          pc |-> "ai_roll"]

\* end_player_turn: a won game stops the loop; otherwise the dice are cleared
\* and do_ai_turn is entered
end_player_turn(s, u) ==
    IF s.bear_off[PLAYER] >= 15 THEN Waits(s, [u EXCEPT !.running = FALSE])
    ELSE [st |-> [s EXCEPT !.dice = <<>>, !.dice_left = <<>>, !.current_player = AI],
          ui |-> [u EXCEPT !.need_roll = TRUE],
          pc |-> "ai_roll"]

\* on_click after a move on the board was applied (backgmn.py 417-435)
AfterBoardMove(s, u, flip) ==
    IF s.dice_left = <<>> THEN end_player_turn(s, u)
    ELSE With(GenerateCall(s, PLAYER, s.dice_left, flip), LAMBDA possibilities :
            IF ~has_legal_moves(possibilities.ret)
            THEN end_player_turn(possibilities.self, u)
            ELSE Waits(possibilities.self, u))

\* try_move_selected_to_bearoff after the checker was borne off
\* (backgmn.py 487-497): `not <list>` is true of the empty list only
AfterBearOff(s, u, flip) ==
    IF s.dice_left = <<>> THEN end_player_turn(s, u)
    ELSE With(GenerateCall(s, PLAYER, s.dice_left, flip), LAMBDA possibilities :
            IF possibilities.ret = <<>>
            THEN end_player_turn(possibilities.self, u)
            ELSE Waits(possibilities.self, u))

try_move_selected_to_bearoff(s, u, flip) ==
    IF u.selected_point = Nothing THEN Waits(s, u)
    ELSE IF u.selected_point = BAR \/ s.bar[PLAYER] > 0 THEN Waits(s, u)
    ELSE With(get_legal_destinations_mapping_for_selected(s, u), LAMBDA legal_map :
            IF 24 \notin DOMAIN legal_map THEN Waits(s, u)
            ELSE With(apply_move(s, Move(u.selected_point, 24, SmallestOf(legal_map[24])), PLAYER),
                      LAMBDA r :
                    IF r.ok THEN AfterBearOff(r.st, [u EXCEPT !.selected_point = Nothing], flip)
                    ELSE Waits(r.st, u)))

\* on_click with pt = screen_to_point(mx, my): "BAR", a point, 24 the bear-off
\* box of PLAYER, -1 that of AI, or None
on_click(s, u, pt, flip) ==
    IF s.current_player # PLAYER \/ u.need_roll \/ pt = Nothing THEN Waits(s, u)
    ELSE IF s.bar[PLAYER] > 0 /\ pt = BAR THEN Waits(s, [u EXCEPT !.selected_point = BAR])
    ELSE IF s.bar[PLAYER] > 0 /\ u.selected_point # BAR THEN Waits(s, u)
    ELSE IF pt = 24
         THEN IF u.selected_point # Nothing THEN try_move_selected_to_bearoff(s, u, flip)
              ELSE Waits(s, u)
    ELSE IF u.selected_point = Nothing
         THEN IF pt \in Points /\ s.points[pt] > 0
              THEN Waits(s, [u EXCEPT !.selected_point = pt])
              ELSE Waits(s, u)
    ELSE IF pt = u.selected_point THEN Waits(s, [u EXCEPT !.selected_point = Nothing])
    ELSE With(get_legal_destinations_mapping_for_selected(s, u), LAMBDA legal_map :
            IF pt \in DOMAIN legal_map
            THEN With(apply_move(s, Move(u.selected_point, pt, legal_map[pt][1]), PLAYER),
                      LAMBDA r :
                    IF r.ok THEN AfterBoardMove(r.st, [u EXCEPT !.selected_point = Nothing], flip)
                    ELSE Waits(r.st, u))
            ELSE IF pt \in Points /\ s.points[pt] > 0
                 THEN IF s.bar[PLAYER] = 0 THEN Waits(s, [u EXCEPT !.selected_point = pt])
                      ELSE Waits(s, u)
            ELSE Waits(s, u))

\* roll_for_player with the dice d1, d2
roll_for_player(s, u, d1, d2, flip) ==
    With([s EXCEPT !.dice = <<d1, d2>>,
                   !.dice_left = IF d1 = d2 THEN <<d1, d1, d1, d1>> ELSE <<d1, d2>>],
         LAMBDA rolled :
            With(GenerateCall(rolled, PLAYER, rolled.dice_left, flip), LAMBDA possible_sequences :
                IF ~has_legal_moves(possible_sequences.ret)
                THEN end_player_turn(possible_sequences.self, [u EXCEPT !.need_roll = FALSE])
                ELSE Waits(possible_sequences.self, [u EXCEPT !.need_roll = FALSE])))

\* the rolls of the AI turn that follows PLAYER's: a mixed roll, one that
\* bears off, and doubles
UiAiRolls == { <<1, 2>>, <<4, 6>>, <<2, 2>> }

\* what a click may land on
ClickTargets == Points \cup {BAR, 24, -1, Nothing}

\* positions PLAYER is to roll in
UiStartStates ==
    { \* PLAYER bearing off behind a point held by AI
      Position((18 :> 1) @@ (23 :> 1), (20 :> 2) @@ (3 :> 1), 0, 0),
      \* PLAYER on the bar, the entry points of dice 3 and 5 held by AI
      Position((20 :> 2), (2 :> 2) @@ (4 :> 2), 1, 0),
      \* PLAYER in front of two points held by AI
      Position((10 :> 1), (12 :> 2) @@ (13 :> 2), 0, 0),
      \* PLAYER one checker from winning
      Position((22 :> 1), (1 :> 1), 0, 0) }

InitUi ==
    /\ \E s \in UiStartStates : state = [s EXCEPT !.current_player = PLAYER]
    /\ pc = "player"
    /\ turn = 0
    /\ last = NoCall
    /\ transposition_table = <<>>
    /\ ui = NewUi

\* the handler returned r; at the end of the loop body of run() a finished
\* game stops the loop
Handled(op, r) ==
    /\ state' = r.st
    /\ pc' = r.pc
    /\ ui' = IF r.pc \in UiIdle THEN [r.ui EXCEPT !.running = @ /\ ~GameOver(r.st)]
             ELSE r.ui
    /\ last' = [op |-> op, ok |-> TRUE]
    /\ UNCHANGED <<turn, transposition_table>>

\* K_r
KeyR(d1, d2, flip) ==
    /\ pc \in UiIdle
    /\ ui.running
    /\ turn < MaxUiTurns
    /\ turn = 0 \/ InPlay(state) <= MaxUiInPlay
    /\ state.current_player = PLAYER /\ ui.need_roll
    /\ \E r \in {roll_for_player(state, ui, d1, d2, flip)} : Handled("roll_for_player", r)

\* MOUSEBUTTONDOWN
MouseClick(pt, flip) ==
    /\ pc \in UiIdle
    /\ ui.running
    /\ \E r \in {on_click(state, ui, pt, flip)} :
          /\ r # Waits(state, ui)
          /\ Handled("on_click", r)

NextUi ==
    \/ \E d1 \in 1 .. 6, d2 \in 1 .. 6 : \E flip \in Flips(<<d1, d2>>) : KeyR(d1, d2, flip)
    \/ \E pt \in ClickTargets : \E flip \in Flips(state.dice_left) : MouseClick(pt, flip)
    \/ \E r \in UiAiRolls : AiRoll(r[1], r[2])
    \/ \E flip \in Flips(state.dice) : pc = "search" /\ SearchOnePly(flip)
    \/ ApplyReturnedMove
    \/ EndAiTurn

SpecUi == InitUi /\ [][NextUi]_vars

\* ---- Claims ----
Checkers(s, p) == SumTo([i \in Points |-> Own(s, p, i)], 23) + s.bar[p] + s.bear_off[p]

Conserved(s) == \A p \in Sides : Checkers(s, p) = TOTAL_CHECKERS


\* The sequences the side to move may play with the rolled dice.
Rolled == pc = "move"
Mover == state.current_player
Generated(flip) == generate_all_sequences_for_dice(state, Mover, state.dice, flip)

\* C1: from the start positions, through every turn in which the mover applies
\* a generated sequence, each side's checkers on the points, on the bar and
\* borne off add up to 15, after every single move of the sequence.
C1_Conservation ==
    /\ Conserved(state)
    /\ Rolled =>
        \A flip \in Flips(state.dice) : \A seq \in Range(Generated(flip)) :
            \A s \in Range(Trail(state, seq, Mover)) : Conserved(s)

\* a turn in which PLAYER hit the AI blot on point 20
C1_Witness ==
    /\ pc = "roll" /\ turn = 1
    /\ state.bar[AI] = 1 /\ state.points[20] > 0
    /\ state.points[6] = -1 /\ state.points[3] = -1
    /\ Conserved(state)

\* the dice of a roll, doubles counted four times
Expanded(dice) == IF Len(dice) = 2 /\ dice[1] = dice[2]
                  THEN <<dice[1], dice[1], dice[1], dice[1]>> ELSE dice

SetMax(S) == IF S = {} THEN 0 ELSE CHOOSE x \in S : \A y \in S : y <= x

RECURSIVE MaxPlayable(_, _, _)
\* the largest number of the dice in `dl` that can be played one after
\* another, over every order of the dice and every legal single move
MaxPlayable(s, player, dl) ==
    SetMax({0} \cup
        UNION { { 1 + MaxPlayable(apply_move(s, m, player).st, player, RemoveFirst(dl, d)) :
                    m \in Range(legal_single_moves_for_die(s, player, d)) } :
                d \in Range(dl) })

\* C2: every generated sequence has the same length, the largest number of
\* dice playable in a row from the state.
C2_MaxDice ==
    Rolled =>
        LET L == MaxPlayable(state, Mover, Expanded(state.dice))
        IN \A flip \in Flips(state.dice) :
              Generated(flip) # <<>> /\ \A seq \in Range(Generated(flip)) : Len(seq) = L

\* dice (3,5) with the 3 blocked as a first step: both dice are played, 5 first
C2_Witness ==
    /\ Rolled /\ Mover = PLAYER /\ state.dice = <<3, 5>>
    /\ legal_single_moves_for_die(state, PLAYER, 3) = <<>>
    /\ Generated(FALSE) # <<>>
    /\ \A seq \in Range(Generated(FALSE)) : Len(seq) = 2 /\ seq[1].die_used = 5

\* the entry point of die d for the mover
EntryPoint(player, d) == IF player = PLAYER THEN d - 1 ELSE 24 - d
HeldByOpponent(s, player, i) == Own(s, -player, i) >= 2

BarBlocked ==
    /\ Rolled /\ state.bar[Mover] > 0
    /\ \A k \in 1 .. Len(state.dice) :
          HeldByOpponent(state, Mover, EntryPoint(Mover, state.dice[k]))

\* C7: with the mover on the bar and the entry point of each rolled die held by
\* two or more opposing checkers, no single move is legal for either die and
\* the generated list is empty.
C7_ForcedPass ==
    BarBlocked =>
        /\ \A k \in 1 .. Len(state.dice) :
              legal_single_moves_for_die(state, Mover, state.dice[k]) = <<>>
        /\ \A flip \in Flips(state.dice) : Generated(flip) = <<>>

\* the part of C7 about single moves, which the code meets
C7_NoEntryMove ==
    BarBlocked =>
        \A k \in 1 .. Len(state.dice) :
            legal_single_moves_for_die(state, Mover, state.dice[k]) = <<>>

\* C8: with a checker on the bar, at most one single move is generated per die
\* and it is a re-entry; in a generated sequence no move leaves a board point
\* while the mover still has a checker on the bar.
C8_BarPriority ==
    Rolled =>
        /\ state.bar[Mover] > 0 =>
              \A d \in 1 .. 6 :
                  LET moves == legal_single_moves_for_die(state, Mover, d)
                  IN Len(moves) <= 1 /\ \A m \in Range(moves) : m.from_pt = BAR
        /\ \A flip \in Flips(state.dice) : \A seq \in Range(Generated(flip)) :
              LET trail == Trail(state, seq, Mover)
              IN \A k \in 1 .. Len(seq) : trail[k].bar[Mover] > 0 => seq[k].from_pt = BAR

\* a re-entry followed, the bar now empty, by a move from a board point
C8_Witness ==
    /\ Rolled /\ state.bar[Mover] = 1
    /\ \E seq \in Range(Generated(FALSE)) :
          Len(seq) = 2 /\ seq[1].from_pt = BAR /\ seq[2].from_pt # BAR

\* the 6 points nearest the exit of a side
Home(player) == IF player = PLAYER THEN 18 .. 23 ELSE 0 .. 5
AllHome(s, player) ==
    s.bar[player] = 0 /\ \A i \in Points : Own(s, player, i) > 0 => i \in Home(player)
IsBearOff(player, m) == IF player = PLAYER THEN m.to_pt >= 24 ELSE m.to_pt <= -1

\* C9: can_bear_off is true exactly when the side has no checker on the bar
\* and none outside its 6 home points, and a generated sequence bears off only
\* at a step where that holds for the mover.
C9_BearOffGate ==
    /\ \A p \in Sides : can_bear_off(state, p) <=> AllHome(state, p)
    /\ Rolled =>
        \A flip \in Flips(state.dice) : \A seq \in Range(Generated(flip)) :
            LET trail == Trail(state, seq, Mover)
            IN \A k \in 1 .. Len(seq) :
                  /\ \A p \in Sides : can_bear_off(trail[k], p) <=> AllHome(trail[k], p)
                  /\ IsBearOff(Mover, seq[k]) => AllHome(trail[k], Mover)

\* PLAYER brings its last outside checker home with the first die and bears
\* off with the second; no bear-off is generated for the first step
C9_Witness ==
    /\ Rolled /\ Mover = PLAYER /\ ~AllHome(state, PLAYER)
    /\ \E seq \in Range(Generated(FALSE)) : Len(seq) = 2 /\ IsBearOff(PLAYER, seq[2])
    /\ \A seq \in Range(Generated(FALSE)) : ~IsBearOff(PLAYER, seq[1])

\* distance of a checker on point i to the exit of its side
ExitDistance(player, i) == IF player = PLAYER THEN 24 - i ELSE i + 1
Overshoots(player, m) ==
    m.from_pt # BAR /\ IsBearOff(player, m) /\ m.die_used > ExitDistance(player, m.from_pt)
FartherChecker(s, player, i) ==
    \E j \in Points : Own(s, player, j) > 0 /\ ExitDistance(player, j) > ExitDistance(player, i)

\* C10: a bear-off with a die larger than the checker's distance to the exit
\* is generated only for a checker with no checker of its side farther from
\* the exit.
C10_Overshoot ==
    Rolled =>
        \A k \in 1 .. Len(state.dice) :
            \A m \in Range(legal_single_moves_for_die(state, Mover, state.dice[k])) :
                Overshoots(Mover, m) => ~FartherChecker(state, Mover, m.from_pt)


ApplyReturned == pc = "returned" /\ last.op = "apply_move"
AnyApplyReturned == pc = "returned" /\ last.op \in {"apply_move", "apply_move_em"}

\* the move named in the last call is not a legal move of its side
OriginEmpty(s, move, player) == move.from_pt # BAR /\ Own(s, player, move.from_pt) = 0
BarEmpty(s, move, player) == move.from_pt = BAR /\ s.bar[player] = 0
DestBlocked(s, move, player) ==
    move.to_pt \in Points /\ HeldByOpponent(s, player, move.to_pt)

\* C5: apply_move returns failure for a move whose origin holds no checker of
\* the mover, for a bar move of a side with no bar checker, and for a
\* destination held by two or more opposing checkers.
C5_Validates ==
    (/\ ApplyReturned
     /\ last.move # None
     /\ \/ OriginEmpty(last.pre, last.move, last.player)
        \/ BarEmpty(last.pre, last.move, last.player)
        \/ DestBlocked(last.pre, last.move, last.player)) => ~last.ok

SameBoard(a, b) ==
    /\ a.points = b.points /\ a.bar = b.bar
    /\ a.bear_off = b.bear_off /\ a.dice_left = b.dice_left

\* C6: a call of apply_move that returns False leaves points, bar, bear_off
\* and dice_left as they were; dice_left changes only in a call that returns
\* True.
C6_AtomicFailure ==
    AnyApplyReturned =>
        /\ ~last.ok => SameBoard(state, last.pre)
        /\ state.dice_left # last.pre.dice_left => last.ok

\* gameState.py's apply_move returned False
C6_Witness ==
    /\ ApplyReturned /\ ~last.ok
    /\ SameBoard(state, last.pre)

SearchReturned == last.op \in {"one_ply", "two_ply"}

\* C3: the sequence a search variant returns replays from the state it was
\* called on: apply_move accepts every move, and at its step each move's
\* origin holds a checker of AI (AI's bar is not empty for a bar move) and its
\* destination is not held by two or more PLAYER checkers; the moves applied
\* to the game were all accepted.
C3_ReplayLegal ==
    SearchReturned =>
        /\ last.ok
        /\ LET t == Trail(last.pre, last.ret, AI)
           IN \A k \in 1 .. Len(last.ret) :
                 /\ apply_move(t[k], last.ret[k], AI).ok
                 /\ ~OriginEmpty(t[k], last.ret[k], AI)
                 /\ ~BarEmpty(t[k], last.ret[k], AI)
                 /\ ~DestBlocked(t[k], last.ret[k], AI)

\* a returned sequence that enters from the bar and moves on was replayed
C3_Witness ==
    /\ SearchReturned /\ pc = "done" /\ last.ok
    /\ Len(last.ret) >= 2
    /\ \E k \in 1 .. Len(last.ret) : last.ret[k].from_pt = BAR

JustReturned == pc \in {"searched", "called"}

\* C4: when generate_all_sequences_for_dice, run_ac3 on a new BackgammonCSP,
\* or either search variant returns, points, bar, bear_off, dice and
\* dice_left of the state passed in are what they were before the call.
C4_CallerUnchanged ==
    JustReturned =>
        /\ SameBoard(state, last.pre)
        /\ state.dice = last.pre.dice

\* the two-ply search returned a sequence with a hit in it: moves were applied
\* to copies by the filter, the scoring loop and the opponent layer
C4_Witness ==
    /\ pc = "searched" /\ last.op = "two_ply"
    /\ SameBoard(state, last.pre)
    /\ \E k \in 1 .. Len(last.ret) :
          last.ret[k].to_pt \in Points /\ last.pre.points[last.ret[k].to_pt] = 1

\* C11: when apply_move lands a checker on a point holding exactly one opposing
\* checker, the point then holds exactly one checker of the mover, the
\* opponent's bar count has grown by one and no point other than the origin and
\* the destination has changed; landing on an empty or own point changes no bar
\* count except the mover's own on entry from the bar.
C11_Hit ==
    (ApplyReturned /\ last.move # None /\ last.move.to_pt \in Points) =>
        LET m == last.move
            p == last.player
            pre == last.pre
        IN /\ pre.points[m.to_pt] = -p =>
                /\ state.points[m.to_pt] = p
                /\ state.bar[-p] = pre.bar[-p] + 1
                /\ \A i \in Points \ {m.to_pt} :
                      i # m.from_pt => state.points[i] = pre.points[i]
           /\ pre.points[m.to_pt] * p >= 0 =>
                /\ state.bar[-p] = pre.bar[-p]
                /\ state.bar[p] = IF m.from_pt = BAR THEN pre.bar[p] - 1 ELSE pre.bar[p]

\* a checker of the mover has hit a blot
C11_Witness ==
    /\ ApplyReturned /\ last.ok /\ last.move # None
    /\ last.move.to_pt \in Points /\ last.move.from_pt \in Points
    /\ Own(last.pre, last.player, last.move.from_pt) > 0
    /\ last.pre.points[last.move.to_pt] = -last.player
    /\ state.points[last.move.to_pt] = last.player
    /\ state.bar[-last.player] = last.pre.bar[-last.player] + 1

\* ---- The root filter of the two-ply search ----
TwoPlyCalled == last.op = "two_ply" /\ last.pre.dice # <<>>

\* C12: every root sequence left by the CSP filter of expectiminimax_two_ply is
\* in the list generate_all_sequences_for_dice returns for the same state and
\* dice, and every domain run_ac3 returns is a subset of the domain the
\* variable had when the BackgammonCSP was built.
C12_OnlyNarrows ==
    /\ TwoPlyCalled =>
          \A flip \in Flips(last.pre.dice) :
              Range(last.trace.root_moves)
                  \subseteq Range(generate_all_sequences_for_dice(last.pre, AI,
                                                                  last.pre.dice, flip))
    /\ last.op = "run_ac3" =>
          /\ Len(last.ret) = Len(last.initial)
          /\ \A v \in 1 .. Len(last.ret) : Range(last.ret[v]) \subseteq Range(last.initial[v])

\* the filter was applied to a list of several sequences and kept some
C12_Witness ==
    /\ TwoPlyCalled /\ pc = "searched"
    /\ last.trace.used /\ last.trace.valid_start_moves # {}
    /\ Len(last.trace.unfiltered) >= 2 /\ last.trace.root_moves # <<>>
    /\ \A k \in 1 .. Len(last.trace.root_moves) :
          last.trace.root_moves[k][1] \in last.trace.valid_start_moves

\* no sequence of the list starts with a move of the set
NoneSurvives(tr) ==
    \A k \in 1 .. Len(tr.unfiltered) :
        tr.unfiltered[k] = <<>> \/ tr.unfiltered[k][1] \notin tr.valid_start_moves

\* C13: in expectiminimax_two_ply a non-empty list of root sequences gives a
\* non-empty list of candidates to score; when no root sequence starts with a
\* move left by AC-3, or that set is empty or was not computed, the unfiltered
\* list is used as it is.
C13_FilterDegeneracy ==
    TwoPlyCalled =>
        /\ last.trace.unfiltered # <<>> =>
              last.trace.root_moves # <<>> /\ last.trace.candidates # <<>>
        /\ (~last.trace.used \/ last.trace.valid_start_moves = {} \/ NoneSurvives(last.trace))
              => last.trace.root_moves = last.trace.unfiltered

\* AC-3 left no move and the list of the one empty sequence was scored
C13_Witness ==
    /\ TwoPlyCalled /\ pc = "searched"
    /\ last.trace.used /\ last.trace.valid_start_moves = {}
    /\ last.trace.unfiltered = << <<>> >>
    /\ last.trace.root_moves = last.trace.unfiltered
    /\ Len(last.trace.candidates) = 1

\* ---- Pass and missing dice ----
NoSingleMove(s, player) ==
    \A k \in 1 .. Len(s.dice) : legal_single_moves_for_die(s, player, s.dice[k]) = <<>>

\* C14: called on a state with dice set in which AI has no legal single move
\* for any rolled die, both search variants return the empty sequence and no
\* exception leaves the call.
C14_Pass ==
    (SearchReturned /\ last.pre.dice # <<>> /\ NoSingleMove(last.pre, AI)) =>
        last.ret = <<>> /\ ~last.err

\* the two-ply search passed for AI on the bar with both entry points held
C14_Witness ==
    /\ last.op = "two_ply" /\ pc = "searched"
    /\ last.pre.dice # <<>> /\ NoSingleMove(last.pre, AI)
    /\ last.pre.bar[AI] > 0
    /\ last.ret = <<>> /\ ~last.err

\* C15: a search variant called on a state with empty dice ends in an exception:
\* nothing is returned, the state and transposition_table are what they were.
C15_FailFast ==
    (SearchReturned /\ last.pre.dice = <<>>) =>
        /\ last.err /\ pc = "failed"
        /\ last.ret = <<>>
        /\ state = last.pre
        /\ transposition_table = last.table
        /\ last.op = "two_ply" => last.trace.unfiltered = <<>>

\* the two-ply search called after the dice were cleared, the table still
\* holding the entries of the turn before
C15_Witness ==
    /\ pc = "failed" /\ last.op = "two_ply" /\ last.err
    /\ last.pre.dice = <<>>
    /\ transposition_table # <<>> /\ transposition_table = last.table


\* the event loop waits for a click of PLAYER, who has rolled and has dice left
AwaitsMove ==
    /\ pc \in UiIdle
    /\ ui.running
    /\ state.current_player = PLAYER
    /\ ~ui.need_roll
    /\ state.dice_left # <<>>

\* C16: once PLAYER has rolled, the UI never waits for a move while dice
\* remain and no remaining die has a legal single move: the handler that
\* reached such a position (the roll, a move on the board, a bear-off) has
\* ended the turn before it returned.
C16_TurnEnds ==
    AwaitsMove => ~NoSingleMove([state EXCEPT !.dice = state.dice_left], PLAYER)

\* C16, after the roll and after a move on the board: no roll and no click
\* that moves a checker on the board returns to the event loop with dice left
\* and no legal single move.
C16_TurnEndsOnBoard ==
    (pc \in UiIdle /\ ui.running /\ state.current_player = PLAYER) =>
        /\ ui.need_roll =>
            \A d1 \in 1 .. 6, d2 \in 1 .. 6 : \A flip \in Flips(<<d1, d2>>) :
                With(roll_for_player(state, ui, d1, d2, flip), LAMBDA r :
                    r.pc \in UiIdle => ~NoSingleMove([r.st EXCEPT !.dice = r.st.dice_left], PLAYER))
        /\ \A pt \in Points : \A flip \in Flips(state.dice_left) :
                With(on_click(state, ui, pt, flip), LAMBDA r :
                    (r.pc \in UiIdle /\ r.st.dice_left # <<>>
                                     /\ r.st.dice_left # state.dice_left) =>
                        ~NoSingleMove([r.st EXCEPT !.dice = r.st.dice_left], PLAYER))


\* C17: each search variant can be called for either side, as run_experiment
\* does with player_id = 1 and player_id = -1: the call returns a sequence
\* of that side's moves and no exception leaves it.
C17_EitherSide ==
    last.op = "experiment_call" =>
        /\ ~last.err
        /\ \A k \in 1 .. Len(last.ret) :
               last.ret[k].from_pt = BAR \/ Own(last.pre, last.player_id, last.ret[k].from_pt) > 0


\* the position with the sides exchanged: every checker of one side becomes
\* a checker of the other on the point as far from that side's home
Exchanged(st) ==
    [st EXCEPT !.points = [i \in Points |-> -st.points[23 - i]],
               !.bar = [p \in Sides |-> st.bar[-p]],
               !.bear_off = [p \in Sides |-> st.bear_off[-p]]]

\* C18: for every non-terminal state, the evaluation from one side's
\* perspective is the negation of the evaluation from the other side's: the
\* evaluator of csp_arc_consistency.py, which takes the state only and scores
\* for AI, gives the position with the sides exchanged the negated value.
C18_Antisymmetry ==
    ~GameOver(state) => csp_evaluate_state(Exchanged(state)) = -csp_evaluate_state(state)


\* the search was called on the standard starting position with dice (3, 1)
OpeningSearched ==
    /\ SearchReturned
    /\ last.pre.points = OpeningState.points
    /\ last.pre.bar = OpeningState.bar /\ last.pre.bear_off = OpeningState.bear_off
    /\ last.pre.dice = <<3, 1>>

\* C19: from the standard starting position with dice (3, 1) set, either
\* search variant returns a non-empty sequence and no exception leaves it.
C19_Opening == OpeningSearched => (~last.err /\ last.ret # <<>>)

\* the two-ply search returned a play of both dice for the opening
C19_Witness ==
    /\ OpeningSearched /\ pc = "searched"
    /\ last.op = "two_ply"
    /\ Len(last.ret) = 2


\* after move m of the side, die has a legal single move
Supported(s, player, m, die) ==
    legal_single_moves_for_die(apply_move(clone(s), m, player).st, player, die) # <<>>

\* C20: after revise(xi, xj) the domain of xi holds exactly those of its
\* previous moves after which the die of xj has a legal single move, and the
\* call returns True exactly when it removed a move.
C20_Prunes ==
    last.op = "revise" =>
        /\ last.ret[last.xi] =
              SelectSeq(last.initial[last.xi],
                        LAMBDA m : Supported(last.pre, last.player, m, last.pre.dice[last.xj]))
        /\ last.revised <=> (last.ret[last.xi] # last.initial[last.xi])

\* C20, what revise leaves untouched: the domains of the other variables
C20_OthersKept ==
    last.op = "revise" =>
        \A v \in 1 .. Len(last.initial) : v # last.xi => last.ret[v] = last.initial[v]


\* what holds of the queue and of the returned domains while run_ac3 runs
Ac3Frame ==
    /\ pc \in {"ac3_loop", "ac3_returned"} =>
          /\ \A k \in 1 .. Len(last.queue) :
                /\ last.queue[k][1] # last.queue[k][2]
                /\ {last.queue[k][1], last.queue[k][2]} \subseteq 1 .. Len(last.csp.dice)
          /\ last.popped = 0 => last.queue = AllArcs(Len(last.csp.dice))
          /\ Len(last.queue) > Len(AllArcs(Len(last.csp.dice))) - last.popped => last.removed
    /\ pc = "ac3_returned" =>
          /\ last.queue = <<>> \/ \E v \in 1 .. Len(last.csp.domains) : last.csp.domains[v] = <<>>
          /\ last.csp.domains = run_ac3(last.initial).ret

\* C21: run_ac3 terminates for every state and every tuple of 2 or 4 dice:
\* the queue starts with all ordered pairs of distinct variables, holds such
\* pairs only, grows only after a revision removed a value, and the loop ends
\* with the queue empty or a domain empty.
C21_Terminates ==
    /\ []Ac3Frame
    /\ (pc = "ac3_loop") ~> (pc = "ac3_returned")

\* run_ac3 returned for four dice after the twelve arcs were popped
C21_Witness ==
    /\ pc = "ac3_returned"
    /\ Len(last.csp.dice) = 4
    /\ last.popped = 12 /\ last.queue = <<>>


\* ---- The cutoff of the one-ply search ----
\* positions up to this many checkers in play are searched a second time
\* without the cutoff
MaxCutoffInPlay == 7

\* the candidates the one-ply search keeps: the root sequences scored, sorted
\* and cut to top_k_ai
KeptCandidates(s, flip) ==
    With(GenerateCall(s, AI, s.dice, flip), LAMBDA g :
        IF NoSequences(g.ret) THEN <<>>
        ELSE FirstK(SortByValue(ScoreRoot(g.self, g.ret, 1, Len(g.ret), "one_ply").scored,
                                FALSE),
                    top_k_ai))

\* the expected value of a candidate over all 21 outcomes (in 36ths): the
\* loop run against a best value no bound reaches
FullExpected(c) ==
    OnePlyOutcomes(1, Len(unordered_dice_outcomes_with_weights), INF,
                   [partial_sum |-> 0, processed_w |-> 0, pruned |-> FALSE,
                    st |-> c.st, self |-> c.st, cache |-> <<>>]).partial_sum

Wins(c) == c.st.bear_off[AI] >= 15

\* the first candidate of the least full expected value
FirstBest(cands) ==
    With([k \in 1 .. Len(cands) |-> FullExpected(cands[k])], LAMBDA full :
        cands[CHOOSE k \in 1 .. Len(cands) :
                 /\ \A j \in 1 .. Len(cands) : full[k] <= full[j]
                 /\ \A j \in 1 .. (k - 1) : full[j] > full[k]].seq)

OnePlySearched ==
    /\ pc = "searched"
    /\ last.op = "one_ply" /\ ~last.err
    /\ InPlay(last.pre) <= MaxCutoffInPlay

\* C22: the cutoff of the one-ply search is sound: unless a kept candidate
\* wins at once, the sequence returned is the first kept candidate whose
\* expected value over all 21 weighted outcomes is the best (lowest) one, the
\* sequence the loop returns with the cutoff disabled; no abandoned candidate
\* is strictly better.
C22_CutoffSound ==
    OnePlySearched =>
        With(KeptCandidates(last.pre, last.flip), LAMBDA cands :
            \/ cands = <<>>
            \/ \E k \in 1 .. Len(cands) : Wins(cands[k])
            \/ last.ret = FirstBest(cands))

\* a search in which a candidate was no better than an earlier one, and so
\* was abandoned at the cutoff, and the best was not the first candidate
C22_Witness ==
    /\ OnePlySearched
    /\ With(KeptCandidates(last.pre, last.flip), LAMBDA cands :
          /\ \A k \in 1 .. Len(cands) : ~Wins(cands[k])
          /\ \E k \in 2 .. Len(cands) : \E j \in 1 .. (k - 1) :
                 FullExpected(cands[k]) >= FullExpected(cands[j])
          /\ last.ret # cands[1].seq)


\* ---- Immediate win ----
\* the root sequence brings AI's borne-off count to 15
WinsAtOnce(s, seq) == Replay(clone(s), seq, AI, Len(seq)).bear_off[AI] = 15

\* the root sequences of the search: both iteration orders give the same set
RootSequences(s) ==
    UNION {Range(generate_all_sequences_for_dice(s, AI, s.dice, flip)) : flip \in Flips(s.dice)}

\* C23: whenever some legal root sequence brings AI's borne-off count to 15,
\* each search variant returns a sequence that does.
C23_ImmediateWin ==
    (pc = "searched" /\ SearchReturned /\ ~last.err) =>
        ((\E seq \in RootSequences(last.pre) : WinsAtOnce(last.pre, seq))
            => WinsAtOnce(last.pre, last.ret))

\* the two-ply search returned a winning play where another play does not win
C23_Witness ==
    /\ pc = "searched" /\ last.op = "two_ply" /\ ~last.err
    /\ WinsAtOnce(last.pre, last.ret)
    /\ \E seq \in RootSequences(last.pre) : ~WinsAtOnce(last.pre, seq)


\* ---- Evaluation caches ----
\* the checkers of a side on the points of a board
OnBoard(points, side) ==
    SumOver([i \in Points |-> IF side = PLAYER THEN points[i] ELSE -points[i]],
            {i \in Points : IF side = PLAYER THEN points[i] > 0 ELSE points[i] < 0})

\* the state a key of transposition_table stands for
TableKeyState(key) ==
    [NewGameState EXCEPT !.points = key[1],
                         !.bear_off = (PLAYER :> key[2]) @@ (AI :> key[3]),
                         !.bar = (PLAYER :> key[4]) @@ (AI :> key[5])]

\* the states a key of eval_cache can stand for: the key leaves the bar
\* counts out, the fifteen checkers of a side fix them
CacheKeyStates(key) ==
    { [NewGameState EXCEPT !.points = key[1],
                           !.bear_off = (PLAYER :> key[2]) @@ (AI :> key[3]),
                           !.bar = (PLAYER :> bp) @@ (AI :> ba)] :
        bp \in {b \in 0 .. TOTAL_CHECKERS : OnBoard(key[1], PLAYER) + b + key[2] = TOTAL_CHECKERS},
        ba \in {b \in 0 .. TOTAL_CHECKERS : OnBoard(key[1], AI) + b + key[3] = TOTAL_CHECKERS} }

\* C24: every value in a search's evaluation cache is what the evaluator
\* computes for the state of its key; a key of the one-ply cache, which leaves
\* the bar counts out, stands for one state only; and a two-ply search that
\* starts with entries of an earlier search ends with the table it builds from
\* an empty one.
C24_CacheCoherent ==
    /\ (pc = "searched" /\ last.op = "one_ply" /\ ~last.err) =>
          \A key \in DOMAIN last.eval_cache :
             /\ Cardinality(CacheKeyStates(key)) = 1
             /\ \A st \in CacheKeyStates(key) : last.eval_cache[key] = evaluate_state(st)
    /\ (pc = "searched" /\ last.op = "two_ply" /\ ~last.err) =>
          /\ \A key \in DOMAIN transposition_table :
                transposition_table[key] = csp_evaluate_state(TableKeyState(key))
          /\ last.table # <<>> =>
                transposition_table = TwoPlyCall(last.pre, <<>>, last.flip).cache

\* a two-ply search that found the table of an earlier search filled, and
\* filled it again
C24_Witness ==
    /\ pc = "searched" /\ last.op = "two_ply" /\ ~last.err
    /\ last.table # <<>>
    /\ transposition_table # <<>>
    /\ transposition_table # last.table

\* a one-ply search whose cache holds a state with a checker on the bar
C24_BarInCache ==
    /\ pc = "searched" /\ last.op = "one_ply" /\ ~last.err
    /\ \E key \in DOMAIN last.eval_cache :
          \E st \in CacheKeyStates(key) : st.bar[PLAYER] + st.bar[AI] > 0


\* ---- Game phase of the evaluator ----
\* the checkers of a side on the six points of its home region
HomeCheckers(st, side) ==
    IF side = PLAYER
    THEN SumOver(st.points, {i \in 18 .. 23 : st.points[i] > 0})
    ELSE SumOver([i \in Points |-> -st.points[i]], {i \in 0 .. 5 : st.points[i] < 0})

\* the rule as documented: twelve checkers of each side at home, or a
\* pip-count gap above 35
DocumentedRace(st) ==
    \/ HomeCheckers(st, PLAYER) >= 12 /\ HomeCheckers(st, AI) >= 12
    \/ Abs(pip_count(st, AI) - pip_count(st, PLAYER)) > 35

\* C25: evaluate_state treats a state as race phase exactly when both sides
\* have at least 12 checkers in their home region or the absolute pip-count
\* gap exceeds 35.
C25_RaceRule ==
    ~GameOver(state) => (is_race_phase(state) <=> DocumentedRace(state))

\* where the checkers of a side stand on AI's way down: a point's index, 24
\* for AI's bar, -1 for PLAYER's bar
Stands(st, side) ==
    {i \in Points : IF side = PLAYER THEN st.points[i] > 0 ELSE st.points[i] < 0}
    \cup (IF st.bar[side] > 0 THEN {IF side = PLAYER THEN -1 ELSE 24} ELSE {})

\* no checker has an opposing checker left to pass
ContactBroken(st) ==
    \A a \in Stands(st, AI), p \in Stands(st, PLAYER) : a < p

\* C26: in every state where evaluate_state takes the race branch, no checker
\* of either side, on the board or on the bar, still has to pass an opposing
\* checker.
C26_RaceMeansNoContact ==
    (~GameOver(state) /\ is_race_phase(state)) => ContactBroken(state)

\* C26, the checkers on the points alone: in the race branch none of them has
\* an opposing checker on a point left to pass
C26_NoContactOnPoints ==
    (~GameOver(state) /\ is_race_phase(state)
        /\ Stands(state, AI) \cap Points # {} /\ Stands(state, PLAYER) \cap Points # {}) =>
        \A a \in Stands(state, AI) \cap Points, p \in Stands(state, PLAYER) \cap Points : a < p


\* ---- Clone ----
CloneFields == {"points", "bar", "bear_off", "current_player", "dice", "dice_left"}

\* C27: c = s.clone() equals s field by field, and apply_move calls on c leave
\* s's points, bar, bear_off and dice_left as the calls on s alone made them,
\* and the other way round.
C27_CloneIndependent ==
    last.op = "clone" =>
        /\ (last.on_clone = 0 /\ last.on_source = 0) =>
              \A f \in CloneFields : last.clone[f] = state[f]
        /\ \A f \in MutableFields :
              /\ state[f] = last.source_alone[f]
              /\ last.clone[f] = last.clone_alone[f]
        /\ last.on_source = 0 => \A f \in MutableFields : state[f] = last.pre[f]
        /\ last.on_clone = 0 => \A f \in MutableFields : last.clone[f] = last.pre[f]

\* a move was applied to the clone and changed its points and its dice_left,
\* none to the source
C27_Witness ==
    /\ last.op = "clone" /\ last.on_clone = 2 /\ last.on_source = 0
    /\ last.clone.points # state.points
    /\ last.clone.bar # state.bar
    /\ last.clone.dice_left # state.dice_left

\* a move was applied to the source and took a checker off, none to the clone
C27_SourceMoved ==
    /\ last.op = "clone" /\ last.on_source > 0 /\ last.on_clone = 0
    /\ last.clone.bear_off # state.bear_off


\* ---- Dice ----
\* the occurrences of v in a list
Occurrences(lst, v) == Cardinality({i \in 1 .. Len(lst) : lst[i] = v})

\* apply_move(move) took s to after: one occurrence of the move's die left
\* dice_left if it was there, and nothing else changed in the list
DieConsumed(s, move, after) ==
    /\ \A v \in 1 .. 6 :
          Occurrences(after.dice_left, v) =
              Occurrences(s.dice_left, v)
              - (IF v = move.die_used /\ Occurrences(s.dice_left, v) > 0 THEN 1 ELSE 0)
    /\ Occurrences(s.dice_left, move.die_used) = 0 => after.dice_left = s.dice_left

\* C28: a successful apply_move removes exactly one occurrence of the move's
\* die from dice_left when it is present and leaves dice_left unchanged
\* otherwise; the dice used along a generated sequence are contained, as a
\* multiset, in the rolled dice after doubles expansion, so a sequence has at
\* most 2 moves for a non-double and at most 4 for a double.
C28_DiceConsumed ==
    last.op = "play" =>
        /\ \A k \in 1 .. Len(last.seq) :
              DieConsumed(Replay(last.pre, last.seq, last.player, k - 1), last.seq[k],
                          Replay(last.pre, last.seq, last.player, k))
        /\ \A d \in 1 .. 6 : \A m \in Range(legal_single_moves_for_die(last.pre, last.player, d)) :
              LET r == apply_move(last.pre, m, last.player)
              IN r.ok /\ DieConsumed(last.pre, m, r.st)
        /\ \A v \in 1 .. 6 :
              Occurrences([k \in 1 .. Len(last.seq) |-> last.seq[k].die_used], v)
                 <= Occurrences(Expanded(last.pre.dice), v)
        /\ Len(last.seq) <= Len(Expanded(last.pre.dice))
        /\ Len(Expanded(last.pre.dice)) = IF last.pre.dice[1] = last.pre.dice[2] THEN 4 ELSE 2

\* a double was played in full: four moves, each taking one die
C28_Witness ==
    /\ last.op = "play"
    /\ Len(last.seq) = 4
    /\ last.pre.dice_left = Expanded(last.pre.dice)
    /\ Len(Replay(last.pre, last.seq, last.player, 3).dice_left) = 1

\* a die that was not rolled: the moves it allows leave dice_left as it is
C28_DieNotLeft ==
    /\ last.op = "play"
    /\ \E d \in 1 .. 6 :
          /\ Occurrences(last.pre.dice_left, d) = 0
          /\ legal_single_moves_for_die(last.pre, last.player, d) # <<>>


\* ---- The generator and the order of the dice ----
\* the sequences generated for a side with the dice given as dice_tuple, as a set
GeneratedSet(s, player, dice_tuple, flip) ==
    Range(generate_all_sequences_for_dice(s, player, dice_tuple, flip))

\* C29: for every state and side, dice (a, b) and (b, a) yield the same set of
\* sequences, a double given as (d, d) yields the same set as (d, d, d, d), and
\* the returned list holds no sequence twice.
C29_DiceMultiset ==
    pc = "move" =>
        \A player \in Sides :
            LET a == state.dice[1]
                b == state.dice[2]
            IN With(generate_all_sequences_for_dice(state, player, <<a, b>>, FALSE), LAMBDA ret :
               /\ \A flip \in BOOLEAN :
                     GeneratedSet(state, player, <<b, a>>, flip) = Range(ret)
               /\ GeneratedSet(state, player, <<a, b>>, TRUE) = Range(ret)
               /\ a = b => GeneratedSet(state, player, <<a, a, a, a>>, FALSE) = Range(ret)
               /\ \A i \in 1 .. Len(ret), j \in 1 .. Len(ret) : i # j => ret[i] # ret[j])

\* a roll of two different dice for which the two orders of play give
\* different sequences, and the list comes out in another order when the dice
\* are tried the other way round
C29_Witness ==
    /\ pc = "move"
    /\ state.dice[1] # state.dice[2]
    /\ With(generate_all_sequences_for_dice(state, state.current_player, state.dice, FALSE),
            LAMBDA ret :
               /\ Len(ret) >= 2
               /\ \E i \in 1 .. Len(ret) : ret[i] # <<>> /\ ret[i][1].die_used = state.dice[1]
               /\ \E i \in 1 .. Len(ret) : ret[i] # <<>> /\ ret[i][1].die_used = state.dice[2]
               /\ ret # generate_all_sequences_for_dice(state, state.current_player,
                                                       state.dice, TRUE))

\* a double with four dice played
C29_DoublePlayed ==
    /\ pc = "move"
    /\ state.dice[1] = state.dice[2]
    /\ \E seq \in GeneratedSet(state, state.current_player, state.dice, FALSE) : Len(seq) = 4


\* ---- Pip count along the moves ----
\* the move takes the checker off the board
BearsOff(move, player) ==
    (player = PLAYER /\ move.to_pt >= 24) \/ (player = AI /\ move.to_pt <= -1)

\* the move lands on a single checker of the other side
Hits(s, move, player) ==
    ~BearsOff(move, player) /\ s.points[move.to_pt] = -player

\* the pips a checker of a side on point i has to go to its exit
DistanceToExit(i, side) == IF side = PLAYER THEN 24 - i ELSE i + 1

\* what apply_move(move) on s did to the two pip counts, `after` being s after it
PipTracks(s, move, player, after) ==
    LET lowered == pip_count(s, player) - pip_count(after, player)
        raised == pip_count(after, -player) - pip_count(s, -player)
    IN /\ IF BearsOff(move, player)
          THEN 1 <= lowered /\ lowered <= move.die_used
          ELSE lowered = move.die_used
       /\ raised = IF Hits(s, move, player)
                   THEN 25 - DistanceToExit(move.to_pt, -player) ELSE 0

\* C30: every move of legal_single_moves_for_die with die d, when applied,
\* lowers the mover's pip_count by exactly d for a board-to-board move or a bar
\* re-entry and by at least 1 and at most d for a bear-off; it raises the
\* opponent's pip_count only when it hits, then by 25 minus the hit checker's
\* previous distance to its exit.
C30_PipTracksMoves ==
    last.op = "play" =>
        /\ \A k \in 1 .. Len(last.seq) :
              With(Replay(last.pre, last.seq, last.player, k - 1), LAMBDA before :
                 /\ last.seq[k] \in Range(legal_single_moves_for_die(before, last.player,
                                                                     last.seq[k].die_used))
                 /\ PipTracks(before, last.seq[k], last.player,
                              apply_move(before, last.seq[k], last.player).st))
        /\ \A d \in 1 .. 6 : \A m \in Range(legal_single_moves_for_die(last.pre, last.player, d)) :
              /\ m.die_used = d
              /\ PipTracks(last.pre, m, last.player, apply_move(last.pre, m, last.player).st)

\* a play of two moves or more in which a move hit a checker and the other
\* side's pip count went up
C30_Witness ==
    /\ last.op = "play"
    /\ Len(last.seq) >= 2
    /\ \E k \in 1 .. Len(last.seq) :
          Hits(Replay(last.pre, last.seq, last.player, k - 1), last.seq[k], last.player)
    /\ pip_count(state, -last.player) > pip_count(last.pre, -last.player)

\* a play that came in from the bar
C30_Entered ==
    /\ last.op = "play"
    /\ \E k \in 1 .. Len(last.seq) : last.seq[k].from_pt = BAR

\* a checker borne off with a die larger than its distance to the exit
C30_Overshoot ==
    /\ last.op = "play"
    /\ \E k \in 1 .. Len(last.seq) :
          /\ BearsOff(last.seq[k], last.player)
          /\ last.seq[k].from_pt # BAR
          /\ DistanceToExit(last.seq[k].from_pt, last.player) < last.seq[k].die_used


\* ---- Opponent branching of the two-ply search ----
\* the documented cap on the opponent replies tried per dice outcome
OpponentMoveCap == 5

\* the replies applied and evaluated for the candidate state st and the
\* outcome o: one value of get_eval per pass through `for oseq in opp_moves`
RepliesEvaluated(st, o) ==
    With(generate_all_sequences_for_dice(st, PLAYER, o.outcome, FALSE), LAMBDA opp_moves :
        IF opp_moves = <<>> THEN 0
        ELSE Len(OppReplies(st, opp_moves, 1, Len(opp_moves),
                            [self |-> st, cache |-> <<>>], "two_ply").vals))

\* the candidates the deep search expands: the beam up to the first winning one
Expanded2Ply(pre, candidates) ==
    LET beam == FirstK(candidates, BEAM_WIDTH)
        after(k) == Replay(clone(pre), beam[k], AI, Len(beam[k]))
    IN {after(k) : k \in {i \in 1 .. Len(beam) :
                             \A h \in 1 .. i : after(h).bear_off[AI] # 15}}

\* C31: for each kept root candidate and each of the 21 dice outcomes the
\* two-ply search applies and evaluates at most 5 opponent reply sequences,
\* and it expands at most 4 root candidates.
C31_BoundedBranching ==
    (pc = "searched" /\ last.op = "two_ply" /\ ~last.err) =>
        /\ Cardinality(Expanded2Ply(last.pre, last.trace.candidates)) <= BEAM_WIDTH
        /\ \A st \in Expanded2Ply(last.pre, last.trace.candidates) :
              \A k \in 1 .. Len(unordered_dice_outcomes_with_weights) :
                 RepliesEvaluated(st, unordered_dice_outcomes_with_weights[k])
                    <= OpponentMoveCap

\* C31, the beam alone: at most 4 of the root candidates are expanded
C31_BeamBounded ==
    (pc = "searched" /\ last.op = "two_ply" /\ ~last.err) =>
        /\ Len(unordered_dice_outcomes_with_weights) = 21
        /\ Cardinality(Expanded2Ply(last.pre, last.trace.candidates)) <= BEAM_WIDTH


\* ---- The moves the UI accepts and the moves of the generator ----
\* the origins on_click lets PLAYER select: the bar while a checker is on it,
\* otherwise the points holding PLAYER's checkers
Selectable(s) ==
    IF s.bar[PLAYER] > 0 THEN {BAR} ELSE {pt \in Points : s.points[pt] > 0}

\* the (origin, die) pairs in get_legal_destinations_mapping_for_selected,
\* taken over every origin that can be selected
UiMoves(s, u) ==
    UNION { LET legal_map == get_legal_destinations_mapping_for_selected(
                                 s, [u EXCEPT !.selected_point = sp])
            IN {<<sp, d>> : d \in UNION {Range(legal_map[dest]) : dest \in DOMAIN legal_map}}
            : sp \in Selectable(s) }

\* the (origin, die) pairs of legal_single_moves_for_die over the dice left
GeneratorMoves(s) ==
    UNION { {<<m.from_pt, m.die_used>> : m \in Range(legal_single_moves_for_die(s, PLAYER, d))}
            : d \in Range(s.dice_left) }

\* C32: wherever the UI waits for a move of PLAYER with dice left, the
\* (origin, die) moves it accepts are those legal_single_moves_for_die returns
\* over the remaining dice; in particular it offers a move whenever the
\* generator has one.
C32_UiAgreesWithGenerator ==
    AwaitsMove =>
        /\ UiMoves(state, ui) = GeneratorMoves(state)
        /\ GeneratorMoves(state) # {} => UiMoves(state, ui) # {}

\* C32, one direction: every move the UI accepts is a move of the generator
C32_UiWithinGenerator ==
    AwaitsMove => UiMoves(state, ui) \subseteq GeneratorMoves(state)

\* C32, the last part alone: the UI offers a move whenever the generator has one
C32_UiOffersSome ==
    AwaitsMove => (GeneratorMoves(state) # {} => UiMoves(state, ui) # {})

\* ---- The turn cycle of the UI ----
\* the event loop of run() waits for input and the game is not over
UiWaits == pc \in UiIdle /\ ~GameOver(state)

\* where do_ai_turn is, from its roll to the last move of the sequence
InAiTurn == {"ai_roll", "search", "searched", "apply"}

\* the same checkers on the points, on the bar and borne off
SameCheckers(a, b) == a.points = b.points /\ a.bar = b.bar /\ a.bear_off = b.bear_off

\* the moves of the returned sequence do_ai_turn has applied so far
AppliedMoves == SubSeq(last.ret, 1, Len(last.ret) - Len(last.rest))

C33_SameCall ==
    [][/\ pc = "ai_roll" => pc' = "search"
       /\ pc = "search" => pc' = "searched"
       /\ pc \in {"searched", "apply"} => pc' \in {"apply", "done"}
       /\ pc' = "done" => pc \in {"searched", "apply"} /\ last.rest = <<>>]_vars

C33_MidTurn ==
    /\ UiWaits /\ ~ui.need_roll
    /\ Len(state.dice_left) < Len(Expanded(state.dice))

\* ---- run_experiment (experiment.py 52-149) ----
PLAYER_1 == 1
PLAYER_2 == -1
max_turns == 200

\* the locals of run_experiment before the loop; d1 is unbound until the
\* first roll, log holds the turn headers written to the file
NewExperiment ==
    [current_player |-> PLAYER_1, consecutive_passes |-> 0, game_over |-> FALSE,
     winner |-> "None", d1 |-> Nothing, log |-> <<>>]

\* state = GameState(); state.setup_standard(); turn_count = 1
InitExperiment ==
    /\ state = [OpeningState EXCEPT !.current_player = PLAYER_1]
    /\ pc = "loop_head"
    /\ turn = 1
    /\ last = NoCall
    /\ transposition_table = <<>>
    /\ ui = NewExperiment

\* `while not game_over and turn_count < max_turns:` entered, d1 rolled
ExperimentRollD1(d1) ==
    /\ pc = "loop_head"
    /\ ~ui.game_over /\ turn < max_turns
    /\ ui' = [ui EXCEPT !.d1 = d1]
    /\ pc' = "d1"
    /\ UNCHANGED <<state, turn, last, transposition_table>>

\* d2 rolled; state.dice is (d1, d1, d1, d1) for doubles, dice_left is not
\* set; state.current_player = current_player
ExperimentRollD2(d2) ==
    /\ pc = "d1"
    /\ state' = [state EXCEPT !.dice = IF ui.d1 = d2 THEN <<d2, d2, d2, d2>> ELSE <<ui.d1, d2>>,
                              !.current_player = ui.current_player]
    /\ pc' = "rolled"
    /\ UNCHANGED <<turn, last, transposition_table, ui>>

\* f.write(log_header + "\n")
ExperimentLogHeader ==
    /\ pc = "rolled"
    /\ ui' = [ui EXCEPT !.log = Append(@, [turn_count |-> turn, player |-> ui.current_player,
                                           dice |-> state.dice])]
    /\ pc' = "thinking"
    /\ UNCHANGED <<state, turn, last, transposition_table>>

\* ai1_logic is expectiminimax_two_ply, ai2_logic expectiminimax_one_ply_with_cutoff2
LogicOf(current_player) == IF current_player = PLAYER_1 THEN "two_ply" ELSE "one_ply"

\* the search variant called on s: [ret, self, err] and the module's table after
SearchCall(variant, s, table, flip) ==
    IF variant = "two_ply"
    THEN With(TwoPlyCall(s, table, flip), LAMBDA r :
            [ret |-> r.ret, self |-> r.self, err |-> r.err, table |-> r.cache])
    ELSE With(OnePlyCall(s, flip), LAMBDA r :
            [ret |-> r.ret, self |-> r.self, err |-> r.err, table |-> table])

\* the loop body from "3. Execute Moves" on, with the while test that follows
\* it: the moves applied, the win and deadlock checks, the turn switched, the
\* dice cleared, turn_count incremented; after the loop a missing winner is
\* the turn limit's draw
TurnTail(s, locals, turn_count, best_sequence) ==
    LET passes == IF best_sequence # <<>> THEN 0 ELSE locals.consecutive_passes + 1
        after == IF best_sequence # <<>>
                 THEN Replay(s, best_sequence, locals.current_player, Len(best_sequence))
                 ELSE s
        won == IF after.bear_off[PLAYER_1] = 15 THEN "AI 1 (CSP)"
               ELSE IF after.bear_off[PLAYER_2] = 15 THEN "AI 2 (Base)"
               ELSE locals.winner
        winner == IF passes >= 6 THEN "DRAW (Stalemate)" ELSE won
        game_over == locals.game_over \/ after.bear_off[PLAYER_1] = 15
                     \/ after.bear_off[PLAYER_2] = 15 \/ passes >= 6
        leaves == game_over \/ ~(turn_count + 1 < max_turns)
    IN [st |-> [after EXCEPT !.current_player = -locals.current_player, !.dice = <<>>],
        ui |-> [locals EXCEPT !.current_player = -locals.current_player,
                              !.consecutive_passes = passes,
                              !.game_over = game_over,
                              !.winner = IF leaves /\ winner = "None"
                                         THEN "DRAW (Turn Limit)" ELSE winner],
        turn |-> turn_count + 1,
        pc |-> IF leaves THEN "result" ELSE "loop_head"]

\* "2. AI Thinking" and the rest of the loop body: the call of lines 103 and
\* 106 passes player_id by keyword; a TypeError leaves run_experiment, which
\* catches nothing
ExperimentThink(flip) ==
    /\ pc = "thinking"
    /\ \E r \in { IF KeywordsAccepted(LogicOf(ui.current_player), {"player_id"})
                  THEN SearchCall(LogicOf(ui.current_player), state, transposition_table, flip)
                  ELSE [ret |-> <<>>, self |-> state, err |-> TRUE,
                        table |-> transposition_table] } :
          /\ last' = [op |-> "experiment_call", ok |-> ~r.err, err |-> r.err,
                      variant |-> LogicOf(ui.current_player),
                      player_id |-> ui.current_player, pre |-> state,
                      ret |-> r.ret, rest |-> <<>>]
          /\ transposition_table' = r.table
          /\ IF r.err
             THEN /\ state' = r.self
                  /\ pc' = "failed"
                  /\ UNCHANGED <<turn, ui>>
             ELSE \E t \in {TurnTail(r.self, ui, turn, r.ret)} :
                    /\ state' = t.st
                    /\ ui' = t.ui
                    /\ turn' = t.turn
                    /\ pc' = t.pc

NextExperiment ==
    \/ \E d1 \in 1 .. 6 : ExperimentRollD1(d1)
    \/ \E d2 \in 1 .. 6 : ExperimentRollD2(d2)
    \/ ExperimentLogHeader
    \/ \E flip \in Flips(state.dice) : ExperimentThink(flip)

SpecExperiment == InitExperiment /\ [][NextExperiment]_vars

\* the loop of run_experiment has been left: through the while test, or by
\* an exception
LoopLeft == pc \in {"result", "failed"}

\* the turns played: turn_count counts the turn in progress
TurnsPlayed == IF pc = "loop_head" \/ pc = "result" THEN turn - 1 ELSE turn

\* C34: the loop of run_experiment plays at most 199 turns; at the head of
\* every turn the dice are cleared and the side to move is PLAYER_1 on odd
\* turns and PLAYER_2 on even ones; and when the loop has been left before
\* turn 199 was played, one side has 15 checkers borne off or 6 consecutive
\* turns were passes, with the dice of the last turn cleared.
C34_LoopTerminates ==
    /\ turn \in 1 .. max_turns /\ TurnsPlayed <= max_turns - 1
    /\ pc = "loop_head" =>
        /\ state.dice = <<>>
        /\ ui.current_player = (IF turn % 2 = 1 THEN PLAYER_1 ELSE PLAYER_2)
        /\ state.current_player = ui.current_player
    /\ LoopLeft =>
        /\ state.dice = <<>>
        /\ \/ TurnsPlayed = max_turns - 1
           \/ state.bear_off[PLAYER_1] = 15 \/ state.bear_off[PLAYER_2] = 15
           \/ ui.consecutive_passes >= 6

\* the sequences the loop body is followed through for: a pass, and each
\* single move of a die of the roll
TailSequences(s, player) ==
    {<<>>} \cup UNION { {<<m>> : m \in Range(legal_single_moves_for_die(s, player, d))}
                        : d \in Range(s.dice) }

\* C34, the loop body after a search that returns: whatever sequence comes
\* back, the turn ends with the dice cleared, the other side to move and
\* turn_count one higher; consecutive_passes is 0 after a non-empty
\* sequence and one higher after a pass; the loop goes on unless a side has
\* 15 borne off, 6 turns in a row were passes, or turn_count has reached 200.
C34_TurnTail ==
    pc = "thinking" =>
        \A passes \in 0 .. 5 : \A turn_count \in {turn, max_turns - 2, max_turns - 1} :
            \A seq \in TailSequences(state, ui.current_player) :
                With(TurnTail(state, [ui EXCEPT !.consecutive_passes = passes], turn_count, seq),
                     LAMBDA t :
                    /\ t.st.dice = <<>>
                    /\ t.st.current_player = -ui.current_player
                    /\ t.ui.current_player = -ui.current_player
                    /\ t.turn = turn_count + 1
                    /\ t.ui.consecutive_passes = (IF seq = <<>> THEN passes + 1 ELSE 0)
                    /\ t.pc = "result" <=>
                         \/ t.st.bear_off[PLAYER_1] = 15 \/ t.st.bear_off[PLAYER_2] = 15
                         \/ t.ui.consecutive_passes >= 6
                         \/ turn_count + 1 = max_turns)

====
